---- MODULE Spec2Model ----
(***************************************************************************)
(* Model of the hwlocality topology editor (src/src/topology/editor.rs)    *)
(* and of the object graph it edits (src/src/object/mod.rs).               *)
(*                                                                         *)
(* The topology is an arena of objects keyed by global_persistent_index.   *)
(* The native library is reached through the editor's primitives; what a   *)
(* native call does to the tree is taken from the repository's own oracle  *)
(* for it, tests::check_restrict and tests::allow in editor.rs.            *)
(***************************************************************************)
EXTENDS Integers, FiniteSets, Sequences, TLC

VARIABLES
    topo,          \* the hwloc_topology: [objs, allowed, original]
    next_gp_index, \* next global_persistent_index the native library hands out
    allocated,     \* objects allocated so far: [group, misc]
    pc,            \* "idle" | "callback" | "aborted"
    stale,         \* a mutation happened since the last completed refresh
    exposedStale,  \* a &Topology was handed to caller code while stale
    endRefreshes,  \* refreshes run by edit() itself in the current session
    editOutcome,   \* how the last edit() ended: "none"|"returned"|"panicked"|"aborted"
    refreshFailed, \* hwloc_topology_refresh reported an error
    last,          \* record describing the last operation and its result
    query          \* the query or iterator on the topology that is under way

vars == <<topo, next_gp_index, allocated, pc, stale, exposedStale, endRefreshes,
          editOutcome, refreshFailed, last, query>>

----------------------------------------------------------------------------
(* Bounds of the exploration                                               *)

\* Number of objects insert_misc_object and insert_group_object may
\* allocate, together, in one behaviour.
MaxInserts == 1

----------------------------------------------------------------------------
(* The machine of the spec's scenario: 2 packages x 2 cores x 2 PUs, one   *)
(* NUMA node attached to each package.                                     *)

Cpus == 0..7
Nodes == 0..1

NoObject == 0
NoSet == {}

Obj(ty, parent, cpus, nodes, os) ==
    [type |-> ty, parent |-> parent, hasSets |-> TRUE,
     cpuset |-> cpus, nodeset |-> nodes, os_index |-> os]

InitialObjects ==
    (1 :> Obj("Machine", NoObject, 0..7, 0..1, -1))
    @@ (2 :> Obj("Package", 1, 0..3, {0}, 0))
    @@ (3 :> Obj("Package", 1, 4..7, {1}, 1))
    @@ (4 :> Obj("NUMANode", 2, 0..3, {0}, 0))
    @@ (5 :> Obj("NUMANode", 3, 4..7, {1}, 1))
    @@ [c \in 6..9 |-> Obj("Core", 2 + ((c - 6) \div 2),
                           {2 * (c - 6), 2 * (c - 6) + 1},
                           {(c - 6) \div 2}, c - 6)]
    @@ [p \in 10..17 |-> Obj("PU", 6 + ((p - 10) \div 2), {p - 10},
                             {(p - 10) \div 4}, p - 10)]

RootId == 1

\* An object of another topology, as a callback may hand one in.
ForeignObject == -1

----------------------------------------------------------------------------
(* Queries on a topology t = [objs, allowed, original]                     *)

Ids(t) == DOMAIN t.objs

\* Topology::cpuset / Topology::nodeset: the sets of the root object.
cpuset(t) == t.objs[RootId].cpuset
nodeset(t) == t.objs[RootId].nodeset

objects_with_type(t, ty) == {id \in Ids(t) : t.objs[id].type = ty}

\* Topology::contains: the object belongs to this topology.
contains(t, id) == id \in Ids(t)

RECURSIVE ancestors(_, _)
ancestors(t, id) ==
    LET p == t.objs[id].parent
    IN IF p = NoObject THEN {} ELSE {p} \cup ancestors(t, p)

\* NUMA nodes local to the PUs of cs.
from_cpuset(t, cs) ==
    {t.objs[n].os_index :
        n \in {m \in objects_with_type(t, "NUMANode") :
                  t.objs[m].cpuset \cap cs # {}}}

\* CPUs local to the NUMA nodes of ns.
from_nodeset(t, ns) ==
    UNION {t.objs[n].cpuset :
        n \in {m \in objects_with_type(t, "NUMANode") :
                  t.objs[m].os_index \in ns}}

----------------------------------------------------------------------------
(* ErasedSets: the (target, other) view of a pair of sets, target being    *)
(* the set of the kind that is restricted.                                 *)

Kinds == {"CpuSet", "NodeSet"}

from_topology(t, kind) ==
    IF kind = "CpuSet"
    THEN [target |-> cpuset(t), other |-> nodeset(t)]
    ELSE [target |-> nodeset(t), other |-> cpuset(t)]

from_object(o, kind) ==
    IF kind = "CpuSet"
    THEN [target |-> o.cpuset, other |-> o.nodeset]
    ELSE [target |-> o.nodeset, other |-> o.cpuset]

predict_restricted_no_intersection(sets, t, kind, restrict_set) ==
    LET predicted_target == restrict_set
    IN [target |-> predicted_target,
        other |-> IF kind = "CpuSet"
                  THEN from_cpuset(t, predicted_target)
                  ELSE from_nodeset(t, predicted_target)]

predict_restricted_leaves_kept(sets, t, kind, restrict_set) ==
    LET predicted_target == IF Cardinality(sets.target) = 1 THEN sets.target
                            ELSE sets.target \cap restrict_set
    IN [target |-> predicted_target,
        other |-> IF kind = "CpuSet"
                  THEN from_cpuset(t, predicted_target)
                  ELSE from_nodeset(t, predicted_target)]

predict_restricted(sets, t, kind, restrict_set) ==
    LET predicted_target == sets.target \cap restrict_set
    IN [target |-> predicted_target,
        other |-> IF kind = "CpuSet"
                  THEN from_cpuset(t, predicted_target)
                  ELSE from_nodeset(t, predicted_target)]

\* An object record with its sets replaced by the erased pair.
with_sets(o, sets, kind) ==
    IF kind = "CpuSet"
    THEN [o EXCEPT !.cpuset = sets.target, !.nodeset = sets.other]
    ELSE [o EXCEPT !.nodeset = sets.target, !.cpuset = sets.other]

----------------------------------------------------------------------------
(* RestrictFlags                                                           *)

\* A flags value is the set of the bits of the flags word that are set.
\* Five bits are the native flags; OTHER_BITS stands for the bits of the
\* word that name no native flag.
HwlocRestrictFlags ==
    {"REMOVE_CPULESS", "BY_NODE_SET", "REMOVE_MEMLESS", "ADAPT_MISC",
     "ADAPT_IO"}

AllRestrictFlags == HwlocRestrictFlags \cup {"OTHER_BITS"}

\* REMOVE_EMPTIED is hwloc_restrict_flags_e::MAX: every bit of the word.
REMOVE_EMPTIED == AllRestrictFlags

\* bitflags: every bit of `other` is set in `flags`.
flags_contain(flags, other) == other \subseteq flags

\* The flags restrict() hands to hwloc_topology_restrict.
native_restrict_flags(kind, flags) ==
    LET by_kind == IF kind = "CpuSet"
                   THEN flags \ {"BY_NODE_SET"}
                   ELSE flags \cup {"BY_NODE_SET"}
        cleared == by_kind \ {"REMOVE_CPULESS", "REMOVE_MEMLESS"}
    IN IF flags_contain(cleared, REMOVE_EMPTIED)
       THEN (cleared \ REMOVE_EMPTIED)
            \cup (IF kind = "CpuSet" THEN {"REMOVE_CPULESS"}
                                     ELSE {"REMOVE_MEMLESS"})
       ELSE cleared

\* The flag words hwloc_topology_restrict accepts: native flags only, the
\* removal flag being the one of the kind of set restricted by.
allowed_by_hwloc(native_flags) ==
    /\ native_flags \subseteq HwlocRestrictFlags
    /\ "REMOVE_CPULESS" \in native_flags => "BY_NODE_SET" \notin native_flags
    /\ "REMOVE_MEMLESS" \in native_flags => "BY_NODE_SET" \in native_flags

----------------------------------------------------------------------------
(* hwloc_topology_restrict, as tests::check_restrict predicts it           *)

\* PUs and NUMA nodes that keep a resource.
retained_leaves_ignoring_other(t, kind, restrict_set, remove_emptied) ==
    {id \in objects_with_type(t, "PU") \cup objects_with_type(t, "NUMANode") :
        TRUE}

retained_leaves(t, kind, restrict_set, remove_emptied) ==
    {id \in objects_with_type(t, "PU") \cup objects_with_type(t, "NUMANode") :
        LET predicted_sets ==
                predict_restricted(from_object(t.objs[id], kind), t, kind,
                                   restrict_set)
        IN ~(predicted_sets.target = {}
             /\ (predicted_sets.other = {} \/ remove_emptied))}

\* The retained leaves and every ancestor of one.
predicted_normal_objects(t, kind, restrict_set, remove_emptied) ==
    LET leaves == retained_leaves(t, kind, restrict_set, remove_emptied)
    IN leaves \cup UNION {ancestors(t, l) : l \in leaves}

\* The parent a Misc object is attached to once its parent is gone: the
\* closest ancestor that is still present.
RECURSIVE first_predicted_ancestor(_, _, _)
first_predicted_ancestor(t, id, predicted) ==
    LET p == t.objs[id].parent
    IN IF p = NoObject \/ p \in predicted THEN p
       ELSE first_predicted_ancestor(t, p, predicted)

rebind_parent(t, id, predicted) ==
    first_predicted_ancestor(t, id, predicted)

predicted_misc_objects(t, predicted, adapt_misc) ==
    {id \in objects_with_type(t, "Misc") :
        adapt_misc \/ t.objs[id].parent \in predicted}

predicted_objects(t, kind, restrict_set, remove_emptied, adapt_misc) ==
    LET normal == predicted_normal_objects(t, kind, restrict_set,
                                           remove_emptied)
        misc == predicted_misc_objects(t, normal, adapt_misc)
    IN [id \in normal \cup misc |->
          IF id \in normal
          THEN with_sets(t.objs[id],
                         predict_restricted(from_object(t.objs[id], kind),
                                            t, kind, restrict_set),
                         kind)
          ELSE [t.objs[id] EXCEPT !.parent = rebind_parent(t, id, normal)]]

\* The allowed sets never name a resource the topology lost.
restricted_allowed(t, objs) ==
    [cpuset |-> t.allowed.cpuset \cap objs[RootId].cpuset,
     nodeset |-> t.allowed.nodeset \cap objs[RootId].nodeset]

hwloc_topology_restrict_same_other(t, restrict_set, native_flags) ==
    LET kind == IF "BY_NODE_SET" \in native_flags THEN "NodeSet" ELSE "CpuSet"
        remove_emptied == IF kind = "CpuSet"
                          THEN "REMOVE_CPULESS" \in native_flags
                          ELSE "REMOVE_MEMLESS" \in native_flags
        initial_sets == from_topology(t, kind)
        predicted_sets == predict_restricted(initial_sets, t, kind,
                                             restrict_set)
    IN IF ~allowed_by_hwloc(native_flags) \/ predicted_sets.target = {}
       THEN [errno |-> "EINVAL", topo |-> t]
       ELSE IF predicted_sets.other = initial_sets.other
       THEN [errno |-> "OK", topo |-> t]
       ELSE LET objs == predicted_objects(t, kind, restrict_set,
                                          remove_emptied,
                                          "ADAPT_MISC" \in native_flags)
            IN [errno |-> "OK",
                topo |-> [t EXCEPT !.objs = objs,
                                   !.allowed = restricted_allowed(t, objs)]]

\* The topology is left alone when no CPU or node is removed.
hwloc_topology_restrict(t, restrict_set, native_flags) ==
    LET kind == IF "BY_NODE_SET" \in native_flags THEN "NodeSet" ELSE "CpuSet"
        remove_emptied == IF kind = "CpuSet"
                          THEN "REMOVE_CPULESS" \in native_flags
                          ELSE "REMOVE_MEMLESS" \in native_flags
        initial_sets == from_topology(t, kind)
        predicted_sets == predict_restricted(initial_sets, t, kind,
                                             restrict_set)
    IN IF ~allowed_by_hwloc(native_flags) \/ predicted_sets.target = {}
       THEN [errno |-> "EINVAL", topo |-> t]
       ELSE IF predicted_sets = initial_sets
       THEN [errno |-> "OK", topo |-> t]
       ELSE LET objs == predicted_objects(t, kind, restrict_set,
                                          remove_emptied,
                                          "ADAPT_MISC" \in native_flags)
            IN [errno |-> "OK",
                topo |-> [t EXCEPT !.objs = objs,
                                   !.allowed = restricted_allowed(t, objs)]]

----------------------------------------------------------------------------
(* TopologyEditor::restrict                                                *)

Ok == [tag |-> "Ok", set |-> NoSet]
ParameterError(set) == [tag |-> "ParameterError", set |-> set]
Aborted == [tag |-> "Aborted", set |-> NoSet]

\* The sets the restriction would leave: the restricted one and the other.
affected_and_other(t, kind, set) ==
    IF kind = "CpuSet"
    THEN LET cs == set \cap cpuset(t)
         IN [affected |-> cs, other |-> from_cpuset(t, cs)]
    ELSE LET ns == set \cap nodeset(t)
         IN [affected |-> ns, other |-> from_nodeset(t, ns)]

removes_everything_or_nothing(t, kind, set, flags) ==
    LET ao == affected_and_other(t, kind, set)
    IN \/ /\ ao.affected = {}
          /\ (flags_contain(flags, REMOVE_EMPTIED) \/ ao.other = {})
       \/ ao.affected = from_topology(t, kind).target

\* The early return of restrict(): the restriction would remove everything.
removes_everything(t, kind, set, flags) ==
    LET ao == affected_and_other(t, kind, set)
    IN /\ ao.affected = {}
       /\ (flags_contain(flags, REMOVE_EMPTIED) \/ ao.other = {})

early_return_ok(set) == Ok

early_return_affected(set) == ParameterError({})

\* What the early return hands back.
early_return(set) == ParameterError(set)

\* What restrict() makes of the native call's EINVAL.
einval_result(set) == ParameterError(set)

\* restrict() up to the native call's outcome: the result, the topology it
\* leaves, the flags sent to the native call ({} and native = FALSE when the
\* native call is not made).
restrict(t, kind, set, flags) ==
    IF removes_everything(t, kind, set, flags)
    THEN [result |-> early_return(set), topo |-> t, native |-> FALSE,
          native_flags |-> {}]
    ELSE LET nf == native_restrict_flags(kind, flags)
             r == hwloc_topology_restrict(t, set, nf)
         IN [result |-> IF r.errno = "OK" THEN Ok ELSE einval_result(set),
             topo |-> r.topo, native |-> TRUE, native_flags |-> nf]

----------------------------------------------------------------------------
(* Inputs                                                                  *)

Interval(lo, hi) == {i \in Cpus : lo <= i /\ i <= hi}

\* Runs of consecutive CPU indices, and the empty set.
RestrictCpuSets == {Interval(lo, hi) : lo \in Cpus, hi \in Cpus}

RestrictNodeSets == SUBSET Nodes

RestrictSets(kind) ==
    IF kind = "CpuSet" THEN RestrictCpuSets ELSE RestrictNodeSets

RestrictFlagInputs == {{}, REMOVE_EMPTIED}

\* The coarser inputs of whole edit sessions: sets made of packages, one
\* core and one PU, and every flag that changes what a restriction does.
SessionCpuSets == {{}, {2, 3}, 0..3, Cpus}

SessionNodeSets == {{}, {1}, Nodes}

SessionFlagInputs ==
    {{}, REMOVE_EMPTIED, {"ADAPT_MISC"}, {"ADAPT_MISC", "ADAPT_IO"}}

Payloads == {"panic_a", "panic_b"}

\* The payload of the panic add_children raises on ENOMEM.
ReallocationFailed == "Internal reallocation failed"

----------------------------------------------------------------------------
(* Edit sessions                                                           *)

\* What `last` keeps of an operation: its name, the tag of its result (for
\* the end of edit(), what the callback did), whether the native call was
\* made, whether the topology changed, whether a refresh found caches to
\* recompute, for restrict() whether nothing of the restricted kind would
\* have been left and whether REMOVE_EMPTIED was asked for, and for
\* insert_group_object() how many groups it allocated and how many times a
\* group was handed to the native insertion.
NoOp ==
    [op |-> "none", result |-> "Ok", native |-> FALSE, changed |-> FALSE,
     refreshed |-> FALSE, emptied |-> FALSE, remove_emptied |-> FALSE,
     groups |-> 0, inserts |-> 0]

\* No query is under way.
NoQuery == [op |-> "none"]

InitialAllowed == [cpuset |-> Cpus, nodeset |-> Nodes]

Init ==
    /\ topo = [objs |-> InitialObjects, allowed |-> InitialAllowed,
               original |-> InitialAllowed]
    /\ next_gp_index = 18
    /\ allocated = [group |-> 0, misc |-> 0]
    /\ pc = "idle"
    /\ stale = FALSE
    /\ exposedStale = FALSE
    /\ endRefreshes = 0
    /\ editOutcome = [kind |-> "none", payload |-> "none"]
    /\ refreshFailed = FALSE
    /\ last = NoOp
    /\ query = NoQuery

refresh_skipped(s) == s

\* Topology::refresh on success: every lazy cache is evaluated.
refresh_stale(s) == FALSE

refresh_failure_returns(next) == next

\* Topology::refresh on failure: std::process::abort().
refresh_failure_pc(next) == "aborted"

\* The process is gone: refresh failed, or the native call ran out of memory.
\* No group was allocated and dropped on the way.
NoGroup == [groups |-> 0, inserts |-> 0]

AbortAfter(op, failed_refresh, unwound) ==
    /\ pc' = IF failed_refresh THEN refresh_failure_pc(pc) ELSE "aborted"
    /\ refreshFailed' = (refreshFailed \/ failed_refresh)
    /\ editOutcome' = [kind |-> "aborted", payload |-> "none"]
    /\ last' = [NoOp EXCEPT !.op = op, !.result = "Aborted",
                            !.groups = unwound.groups,
                            !.inserts = unwound.inserts]
    /\ next_gp_index' = next_gp_index + unwound.groups
    /\ allocated' = [allocated EXCEPT !.group = @ + unwound.groups]
    /\ UNCHANGED <<topo, stale, exposedStale, endRefreshes, query>>

Abort(op, failed_refresh) == AbortAfter(op, failed_refresh, NoGroup)

\* Topology::edit, up to the call of the callback.
BeginEdit ==
    /\ UNCHANGED query
    /\ pc = "idle"
    /\ pc' = "callback"
    /\ endRefreshes' = 0
    /\ editOutcome' = [kind |-> "none", payload |-> "none"]
    /\ last' = [NoOp EXCEPT !.op = "edit"]
    /\ UNCHANGED <<topo, next_gp_index, allocated, stale, exposedStale, refreshFailed>>

\* TopologyEditor::topology, called by the callback.
EditorTopology ==
    /\ UNCHANGED query
    /\ pc = "callback"
    /\ \/ Abort("topology", TRUE)
       \/ /\ stale' = refresh_stale(stale)
          /\ exposedStale' = (exposedStale \/ stale')
          /\ last' = [NoOp EXCEPT !.op = "topology", !.refreshed = stale]
          /\ UNCHANGED <<topo, next_gp_index, allocated, pc, endRefreshes,
                         editOutcome, refreshFailed>>

\* TopologyEditor::restrict, called by the callback with a set and flags of
\* the given families.
RestrictWith(cpu_sets, node_sets, flag_inputs) ==
    /\ UNCHANGED query
    /\ pc = "callback"
    /\ \/ Abort("restrict", TRUE)
       \/ /\ \E kind \in Kinds, flags \in flag_inputs :
                \E set \in (IF kind = "CpuSet" THEN cpu_sets
                                                  ELSE node_sets) :
                    restrict(topo, kind, set, flags).native
          /\ Abort("restrict", FALSE)
       \/ \E kind \in Kinds, flags \in flag_inputs :
            \E set \in (IF kind = "CpuSet" THEN cpu_sets ELSE node_sets) :
                LET r == restrict(topo, kind, set, flags)
                IN /\ topo' = r.topo
                   /\ stale' = IF r.result.tag = "Ok" THEN TRUE
                               ELSE refresh_stale(stale)
                   /\ last' = [op |-> "restrict",
                               result |-> r.result.tag,
                               native |-> r.native,
                               changed |-> (r.topo # topo),
                               refreshed |-> FALSE,
                               emptied |->
                                 (affected_and_other(topo, kind, set).affected
                                  = {}),
                               remove_emptied |->
                                   flags_contain(flags, REMOVE_EMPTIED),
                               groups |-> 0,
                               inserts |-> 0]
                   /\ UNCHANGED <<next_gp_index, allocated, pc, exposedStale,
                                  endRefreshes, editOutcome, refreshFailed>>

Restrict == RestrictWith(SessionCpuSets, SessionNodeSets, SessionFlagInputs)

RestrictAny ==
    RestrictWith(RestrictCpuSets, RestrictNodeSets, RestrictFlagInputs)

----------------------------------------------------------------------------
(* TopologyEditor::allow                                                   *)

None == [some |-> FALSE, set |-> NoSet]
Some(set) == [some |-> TRUE, set |-> set]

AllowSetError == [tag |-> "AllowSetError", set |-> NoSet]
HwlocError == [tag |-> "RawHwlocError", set |-> NoSet]

\* The allowed sets a custom allow set asks for.
effective_sets(t, cs, ns) ==
    LET c1 == IF cs.some THEN cpuset(t) \cap cs.set ELSE cpuset(t)
        n1 == IF cs.some THEN nodeset(t) \cap from_cpuset(t, cs.set)
                         ELSE nodeset(t)
    IN [cpuset |-> IF ns.some THEN c1 \cap from_nodeset(t, ns.set) ELSE c1,
        nodeset |-> IF ns.some THEN n1 \cap ns.set ELSE n1]

\* allow() before the native call: the error it returns, if any.
allow_rejects(t, allow_set) ==
    /\ allow_set.tag = "Custom"
    /\ LET e == effective_sets(t, allow_set.cpuset, allow_set.nodeset)
       IN \/ (e.cpuset = {} /\ e.nodeset = {})
          \/ (~allow_set.cpuset.some /\ ~allow_set.nodeset.some)

\* hwloc_topology_allow, as tests::allow expects it.
hwloc_topology_allow(t, allow_set) ==
    CASE allow_set.tag = "All" ->
            [t EXCEPT !.allowed = [cpuset |-> cpuset(t),
                                   nodeset |-> nodeset(t)]]
      [] allow_set.tag = "LocalRestrictions" ->
            [t EXCEPT !.allowed = [cpuset |-> t.original.cpuset \cap cpuset(t),
                                   nodeset |-> t.original.nodeset
                                               \cap nodeset(t)]]
      [] OTHER ->
            [t EXCEPT !.allowed = effective_sets(t, allow_set.cpuset,
                                                 allow_set.nodeset)]

AllowCpuSets == {None, Some({}), Some(0..3)}
AllowNodeSets == {None, Some({1})}

AllowSets ==
    {[tag |-> "All", cpuset |-> None, nodeset |-> None],
     [tag |-> "LocalRestrictions", cpuset |-> None, nodeset |-> None]}
    \cup {[tag |-> "Custom", cpuset |-> cs, nodeset |-> ns] :
            cs \in AllowCpuSets, ns \in AllowNodeSets}

\* TopologyEditor::allow, called by the callback. A custom allow set is
\* checked against the refreshed topology first; the native call can
\* reject any request and then leaves the topology as it was.
AllowWith(allow_sets) ==
    /\ UNCHANGED query
    /\ pc = "callback"
    /\ \/ Abort("allow", TRUE)
       \/ \E allow_set \in allow_sets, native_ok \in BOOLEAN :
            LET custom == allow_set.tag = "Custom"
                rejected == allow_rejects(topo, allow_set)
                applied == ~rejected /\ native_ok
            IN /\ topo' = IF applied
                          THEN hwloc_topology_allow(topo, allow_set)
                          ELSE topo
               /\ stale' = IF applied THEN TRUE
                           ELSE IF custom THEN refresh_stale(stale)
                           ELSE stale
               /\ last' = [NoOp EXCEPT
                             !.op = "allow",
                             !.result = IF rejected THEN AllowSetError.tag
                                        ELSE IF native_ok THEN "Ok"
                                        ELSE HwlocError.tag,
                             !.native = ~rejected,
                             !.changed = (topo' # topo)]
               /\ UNCHANGED <<next_gp_index, allocated, pc, exposedStale,
                              endRefreshes, editOutcome, refreshFailed>>

Allow == AllowWith(AllowSets)

\* A machine with a third NUMA node that has memory and no CPU, attached to
\* the root.
CpulessNode == 18

InitialObjectsWithCpulessNode ==
    [id \in DOMAIN InitialObjects \cup {CpulessNode} |->
        IF id = CpulessNode THEN Obj("NUMANode", RootId, {}, {2}, 2)
        ELSE IF id = RootId
        THEN [InitialObjects[id] EXCEPT !.nodeset = @ \cup {2}]
        ELSE InitialObjects[id]]

\* Finer custom allow sets: each set absent, empty, partial or whole.
AllowCpuSetsAny == {None, Some({}), Some(0..3), Some(Cpus)}
AllowNodeSetsAny == {None, Some({}), Some({1}), Some({2}), Some(0..2)}

AllowSetsAny ==
    {[tag |-> "All", cpuset |-> None, nodeset |-> None],
     [tag |-> "LocalRestrictions", cpuset |-> None, nodeset |-> None]}
    \cup {[tag |-> "Custom", cpuset |-> cs, nodeset |-> ns] :
            cs \in AllowCpuSetsAny, ns \in AllowNodeSetsAny}

AllowAny == AllowWith(AllowSetsAny)

\* Topologies built from either machine, everything allowed.
InitAllow ==
    /\ \E objs \in {InitialObjects, InitialObjectsWithCpulessNode} :
          LET all == [cpuset |-> objs[RootId].cpuset,
                      nodeset |-> objs[RootId].nodeset]
          IN topo = [objs |-> objs, allowed |-> all, original |-> all]
    /\ next_gp_index = CpulessNode + 1
    /\ allocated = [group |-> 0, misc |-> 0]
    /\ pc = "idle"
    /\ stale = FALSE
    /\ exposedStale = FALSE
    /\ endRefreshes = 0
    /\ editOutcome = [kind |-> "none", payload |-> "none"]
    /\ refreshFailed = FALSE
    /\ last = NoOp
    /\ query = NoQuery

----------------------------------------------------------------------------
(* TopologyEditor::insert_misc_object                                      *)

ForeignParent == [tag |-> "ForeignParent", set |-> NoSet]
NameContainsNul == [tag |-> "NameContainsNul", set |-> NoSet]

MiscNames == {<<"m">>, <<"m", "NUL">>}

\* LibcString::new refuses a name that holds a NUL character.
contains_nul(name) == \E i \in DOMAIN name : name[i] = "NUL"

MiscObject(parent) ==
    [type |-> "Misc", parent |-> parent, hasSets |-> FALSE,
     cpuset |-> NoSet, nodeset |-> NoSet, os_index |-> -1]

hwloc_topology_insert_misc_object_lowest_free(t, parent, gp_index) ==
    LET free == CHOOSE i \in 1..gp_index :
                    i \notin Ids(t) /\ \A j \in 1..(i - 1) : j \in Ids(t)
    IN [t EXCEPT !.objs = t.objs @@ (free :> MiscObject(parent))]

\* hwloc_topology_insert_misc_object: the new leaf gets the next index.
hwloc_topology_insert_misc_object(t, parent, gp_index) ==
    [t EXCEPT !.objs = t.objs @@ (gp_index :> MiscObject(parent))]

insert_misc_check_name_first(t, name, parent) ==
    IF contains_nul(name) THEN NameContainsNul
    ELSE IF ~contains(t, parent) THEN ForeignParent
    ELSE Ok

\* insert_misc_object() up to the native call: the error it returns, or Ok.
insert_misc_check(t, name, parent) ==
    IF ~contains(t, parent) THEN ForeignParent
    ELSE IF contains_nul(name) THEN NameContainsNul
    ELSE Ok

\* The objects find_parent picks: the root, a package, a PU, a Misc object,
\* or an object of another topology.
MiscParents(t) ==
    ({RootId, 2, 10} \cap Ids(t)) \cup objects_with_type(t, "Misc")
    \cup {ForeignObject}

\* TopologyEditor::insert_misc_object, called by the callback: find_parent
\* is given the refreshed topology and names any object, of this topology
\* or not. The native call fails when Misc objects are filtered out.
InsertMisc ==
    /\ UNCHANGED query
    /\ pc = "callback"
    /\ allocated.misc + allocated.group < MaxInserts
    /\ \/ Abort("insert_misc_object", TRUE)
       \/ \E parent \in MiscParents(topo), name \in MiscNames,
             native_ok \in BOOLEAN :
            LET check == insert_misc_check(topo, name, parent)
                applied == check.tag = "Ok" /\ native_ok
                seen_stale == refresh_stale(stale)
            IN /\ topo' = IF applied
                          THEN hwloc_topology_insert_misc_object(
                                   topo, parent, next_gp_index)
                          ELSE topo
               /\ next_gp_index' = IF applied THEN next_gp_index + 1
                                   ELSE next_gp_index
               /\ allocated' = IF applied
                               THEN [allocated EXCEPT !.misc = @ + 1]
                               ELSE allocated
               /\ exposedStale' = (exposedStale \/ seen_stale)
               /\ stale' = IF applied THEN TRUE ELSE seen_stale
               /\ last' = [NoOp EXCEPT
                             !.op = "insert_misc_object",
                             !.result = IF check.tag # "Ok" THEN check.tag
                                        ELSE IF native_ok THEN "Ok"
                                        ELSE HwlocError.tag,
                             !.native = (check.tag = "Ok"),
                             !.changed = (topo' # topo)]
               /\ UNCHANGED <<pc, endRefreshes, editOutcome, refreshFailed>>

----------------------------------------------------------------------------
(* TopologyEditor::insert_group_object                                     *)

ForeignObjectError == [tag |-> "ForeignObjectError", set |-> NoSet]

GroupMerges == {"None", "Never", "Always"}

NormalTypes == {"Machine", "Package", "Core", "PU", "Group"}

normal_objects(t) == {id \in Ids(t) : t.objs[id].type \in NormalTypes}

\* AllocatedGroup::add_children, the check: the first child that does not
\* belong to the topology, if any.
foreign_children(t, children) == {c \in children : ~contains(t, c)}

add_children_one_child(t, children) ==
    IF children = {} THEN [cpuset |-> {}, nodeset |-> {}]
    ELSE LET c == CHOOSE c \in children : TRUE
         IN [cpuset |-> t.objs[c].cpuset, nodeset |-> t.objs[c].nodeset]

\* AllocatedGroup::add_children, the merge: hwloc_obj_add_other_obj_sets
\* adds each child's sets to the group's.
add_children(t, children) ==
    [cpuset |-> UNION {t.objs[c].cpuset : c \in children},
     nodeset |-> UNION {t.objs[c].nodeset : c \in children}]

GroupObject(parent, sets) ==
    [type |-> "Group", parent |-> parent, hasSets |-> TRUE,
     cpuset |-> sets.cpuset, nodeset |-> sets.nodeset, os_index |-> -1]

\* Normal objects with exactly the group's sets.
identical_objects(t, sets) ==
    {o \in normal_objects(t) :
        t.objs[o].cpuset = sets.cpuset /\ t.objs[o].nodeset = sets.nodeset}

\* Normal objects the group would sit under: those with a larger cpuset,
\* and the root when the group covers the whole machine.
group_ancestors(t, sets) ==
    {o \in normal_objects(t) :
        /\ sets.cpuset \subseteq t.objs[o].cpuset
        /\ (sets.cpuset # t.objs[o].cpuset \/ o = RootId)}

\* The lowest of them.
group_parent(t, sets) ==
    CHOOSE p \in group_ancestors(t, sets) :
        \A q \in group_ancestors(t, sets) :
            t.objs[p].cpuset \subseteq t.objs[q].cpuset
            /\ (t.objs[p].cpuset = t.objs[q].cpuset => p \notin ancestors(t, q))

\* Its normal children that the group covers, and those it cuts in two.
covered_children(t, parent, sets) ==
    {o \in normal_objects(t) :
        t.objs[o].parent = parent /\ t.objs[o].cpuset \subseteq sets.cpuset}

conflicting_children(t, parent, sets) ==
    {o \in normal_objects(t) :
        /\ t.objs[o].parent = parent
        /\ t.objs[o].cpuset \cap sets.cpuset # {}
        /\ ~(t.objs[o].cpuset \subseteq sets.cpuset)}

\* hwloc_topology_insert_group_object: a group without sets is refused, a
\* group with the sets of an existing object is dropped in favour of it
\* unless merging is prevented, a group that cuts an object in two is
\* refused, and any other group becomes the parent of what it covers.
hwloc_topology_insert_group_object(t, gp_index, sets, merge) ==
    IF sets.cpuset = {}
    THEN [status |-> "Rejected", topo |-> t]
    ELSE IF identical_objects(t, sets) # {} /\ merge # "Never"
    THEN [status |-> "Existing", topo |-> t]
    ELSE IF group_ancestors(t, sets) = {}
    THEN [status |-> "Rejected", topo |-> t]
    ELSE LET parent == group_parent(t, sets)
             moved == covered_children(t, parent, sets)
         IN IF conflicting_children(t, parent, sets) # {}
            THEN [status |-> "Rejected", topo |-> t]
            ELSE [status |-> "New",
                  topo |-> [t EXCEPT !.objs =
                      [id \in Ids(t) \cup {gp_index} |->
                          IF id = gp_index THEN GroupObject(parent, sets)
                          ELSE IF id \in moved
                          THEN [t.objs[id] EXCEPT !.parent = gp_index]
                          ELSE t.objs[id]]]]

\* The objects find_children picks: nothing, the two cores of a package,
\* cores of two packages, one PU, or a core and an object of another
\* topology.
GroupChildren(t) ==
    {c \in {{}, {6, 7}, {6, 8}, {10}, {6, ForeignObject}} :
        c \ {ForeignObject} \subseteq Ids(t)}

\* TopologyObject::delete_all_sets: the group loses its sets.
delete_all_sets(sets) == [cpuset |-> {}, nodeset |-> {}]

\* Drop for AllocatedGroup: the group, emptied of its sets, is handed to
\* the native insertion, which is expected to refuse and free it.
drop(t, gp_index, sets, merge) ==
    hwloc_topology_insert_group_object(t, gp_index, delete_all_sets(sets),
                                       merge).topo

\* A group just allocated: it has no sets, it was never handed to the
\* native insertion, and it is dropped when it goes out of scope.
AllocatedGroup(t) ==
    [topo |-> t, sets |-> [cpuset |-> {}, nodeset |-> {}], inserts |-> 0,
     forgotten |-> FALSE, status |-> "Allocated"]

\* AllocatedGroup::insert_impl: the native insertion, once.
insert_impl(group, gp_index, merge) ==
    LET r == hwloc_topology_insert_group_object(group.topo, gp_index,
                                                group.sets, merge)
    IN [group EXCEPT !.topo = r.topo, !.status = r.status,
                     !.inserts = @ + 1]

insert_then_drop(group, gp_index, merge) ==
    insert_impl(group, gp_index, merge)

\* AllocatedGroup::insert: insert_impl, and the group is forgotten so that
\* Drop does not run.
insert(group, gp_index, merge) ==
    [insert_impl(group, gp_index, merge) EXCEPT !.forgotten = TRUE]

\* The group goes out of scope, on return or while a panic unwinds: Drop
\* runs unless the group was forgotten, and hands the group, emptied of
\* its sets, to the native insertion.
end_of_scope(group, gp_index, merge) ==
    IF group.forgotten THEN group
    ELSE [group EXCEPT
            !.topo = drop(group.topo, gp_index, group.sets, merge),
            !.inserts = @ + 1]

\* insert_group_object() when add_children panics, in find_children or for
\* want of memory while merging: the group is dropped as the panic unwinds,
\* before its merge policy is set.
insert_group_object_unwound(t, gp_index) ==
    end_of_scope(AllocatedGroup(t), gp_index, "None")

insert_group_object_checked_late(t, gp_index, children, merge) ==
    LET r == hwloc_topology_insert_group_object(
                 t, gp_index,
                 add_children(t, children \ foreign_children(t, children)),
                 merge)
    IN IF foreign_children(t, children) # {}
       THEN [result |-> ForeignObjectError.tag, topo |-> r.topo,
             merged |-> add_children(
                            t, children \ foreign_children(t, children)),
             inserts |-> 1]
       ELSE [result |-> IF r.status = "Rejected" THEN HwlocError.tag
                        ELSE r.status,
             topo |-> r.topo, merged |-> add_children(t, children),
             inserts |-> 1]

\* insert_group_object() once the group is allocated: a foreign child ends
\* the call and drops the group, which has no sets yet; otherwise the
\* children's sets are merged, the merge policy is set and the group is
\* inserted. `merged` is what the children gave to the group's sets.
insert_group_object(t, gp_index, children, merge) ==
    IF foreign_children(t, children) # {}
    THEN LET group == end_of_scope(AllocatedGroup(t), gp_index, merge)
         IN [result |-> ForeignObjectError.tag, topo |-> group.topo,
             merged |-> group.sets, inserts |-> group.inserts]
    ELSE LET merged == [AllocatedGroup(t) EXCEPT
                          !.sets = add_children(t, children)]
             group == end_of_scope(insert(merged, gp_index, merge),
                                   gp_index, merge)
         IN [result |-> IF group.status = "Rejected" THEN HwlocError.tag
                        ELSE group.status,
             topo |-> group.topo, merged |-> merged.sets,
             inserts |-> group.inserts]

\* TopologyEditor::insert_group_object, called by the callback. The group
\* is allocated (which can fail), find_children is given the refreshed
\* topology and picks one of child_sets, and the call goes on as above.
InsertGroupWith(child_sets) ==
    /\ UNCHANGED query
    /\ pc = "callback"
    /\ allocated.misc + allocated.group < MaxInserts
    /\ \/ /\ last' = [NoOp EXCEPT !.op = "insert_group_object",
                                  !.result = HwlocError.tag]
          /\ UNCHANGED <<topo, next_gp_index, allocated, pc, stale,
                         exposedStale, endRefreshes, editOutcome,
                         refreshFailed>>
       \/ Abort("insert_group_object", TRUE)
       \/ \E children \in child_sets, merge \in GroupMerges :
            LET seen_stale == refresh_stale(stale)
                r == insert_group_object(topo, next_gp_index, children, merge)
            IN /\ topo' = r.topo
               /\ next_gp_index' = next_gp_index + 1
               /\ allocated' = [allocated EXCEPT !.group = @ + 1]
               /\ exposedStale' = (exposedStale \/ seen_stale)
               /\ stale' = IF r.result \in {"New", "Existing"} THEN TRUE
                           ELSE seen_stale
               /\ last' = [NoOp EXCEPT
                             !.op = "insert_group_object",
                             !.result = r.result,
                             !.native = TRUE,
                             !.changed = (topo' # topo),
                             !.groups = 1,
                             !.inserts = r.inserts]
               /\ UNCHANGED <<pc, endRefreshes, editOutcome, refreshFailed>>

InsertGroup == InsertGroupWith(GroupChildren(topo))

\* A machine of one package with n cores of one PU each and one NUMA node:
\* two sibling cores cover less than their package when n > 2, and the
\* machines taken have 3 to MaxCores cores.
MaxCores == 4

ManyCoreObjects(n) ==
    (1 :> Obj("Machine", NoObject, 0..(n - 1), {0}, -1))
    @@ (2 :> Obj("Package", 1, 0..(n - 1), {0}, 0))
    @@ (3 :> Obj("NUMANode", 2, 0..(n - 1), {0}, 0))
    @@ [c \in 4..(3 + n) |-> Obj("Core", 2, {c - 4}, {0}, c - 4)]
    @@ [p \in (4 + n)..(3 + 2 * n) |-> Obj("PU", p - n, {p - 4 - n}, {0},
                                           p - 4 - n)]

\* Two objects with the same parent.
siblings(t, a, b) == a # b /\ t.objs[a].parent = t.objs[b].parent

\* The objects find_children picks: nothing, two sibling cores, or a core
\* and an object of another topology.
SiblingCores(t) ==
    {pair \in SUBSET objects_with_type(t, "Core") :
        \E a \in pair, b \in pair : pair = {a, b} /\ siblings(t, a, b)}

GroupChildrenAny(t) ==
    {{}} \cup SiblingCores(t)
    \cup {{a, ForeignObject} : a \in objects_with_type(t, "Core")}

InsertGroupAny == InsertGroupWith(GroupChildrenAny(topo))

InitGroup ==
    /\ \E n \in 3..MaxCores :
          LET all == [cpuset |-> 0..(n - 1), nodeset |-> {0}]
          IN topo = [objs |-> ManyCoreObjects(n), allowed |-> all,
                     original |-> all]
    /\ next_gp_index = 4 + 2 * MaxCores
    /\ allocated = [group |-> 0, misc |-> 0]
    /\ pc = "idle"
    /\ stale = FALSE
    /\ exposedStale = FALSE
    /\ endRefreshes = 0
    /\ editOutcome = [kind |-> "none", payload |-> "none"]
    /\ refreshFailed = FALSE
    /\ last = NoOp
    /\ query = NoQuery

edit_refreshes_unless_panic(panic) == IF panic = "none" THEN 1 ELSE 0

\* The refreshes edit() runs once the callback has returned or panicked.
edit_refreshes(panic) == 1

\* How edit() ends after the refresh: it returns the callback's result, or
\* resume_unwind() raises the payload catch_unwind caught.
edit_outcome(panic) ==
    IF panic = "none" THEN [kind |-> "returned", payload |-> "none"]
    ELSE [kind |-> "panicked", payload |-> panic]

\* Topology::edit, from the end of the callback on: the callback returned
\* (panic = "none") or panicked with a payload, `unwound` telling what the
\* panic dropped on its way to edit().
FinishEditAfter(panic, unwound) ==
    \E refresh_ok \in BOOLEAN :
        LET n == edit_refreshes(panic)
        IN IF n > 0 /\ ~refresh_ok THEN AbortAfter("edit", TRUE, unwound)
           ELSE /\ pc' = "idle"
                /\ endRefreshes' = n
                /\ stale' = IF n > 0 THEN refresh_stale(stale) ELSE stale
                /\ exposedStale' = (exposedStale \/ stale')
                /\ editOutcome' = edit_outcome(panic)
                /\ last' = [NoOp EXCEPT !.op = "edit_end", !.result = panic,
                                        !.refreshed = (n > 0 /\ stale),
                                        !.groups = unwound.groups,
                                        !.inserts = unwound.inserts]
                /\ next_gp_index' = next_gp_index + unwound.groups
                /\ allocated' = [allocated EXCEPT
                                   !.group = @ + unwound.groups]
                /\ UNCHANGED <<topo, refreshFailed, query>>

FinishEdit(panic) == FinishEditAfter(panic, NoGroup)

\* The callback returns, or panics with a payload of its own.
EndEdit ==
    /\ pc = "callback"
    /\ \E panic \in {"none"} \cup Payloads : FinishEdit(panic)

\* insert_group_object panics, find_children with a payload of its own or
\* the merge of the children's sets for want of memory: the allocated
\* group is dropped while the panic unwinds through the callback to edit().
InsertGroupPanic ==
    /\ pc = "callback"
    /\ allocated.misc + allocated.group < MaxInserts
    /\ \E panic \in Payloads \cup {ReallocationFailed} :
          /\ panic = ReallocationFailed
             => \E children \in GroupChildren(topo) :
                   children # {} /\ foreign_children(topo, children) = {}
          /\ LET group == insert_group_object_unwound(topo, next_gp_index)
             IN FinishEditAfter(panic, [groups |-> 1,
                                        inserts |-> group.inserts])

Next ==
    \/ BeginEdit
    \/ EditorTopology
    \/ Restrict
    \/ Allow
    \/ InsertMisc
    \/ InsertGroup
    \/ InsertGroupPanic
    \/ EndEdit

Spec == Init /\ [][Next]_vars

\* Edit sessions that only restrict, with finer sets.
NextRestrict ==
    \/ BeginEdit
    \/ RestrictAny
    \/ EndEdit

SpecRestrict == Init /\ [][NextRestrict]_vars

\* Edit sessions that only insert groups, on the many-core machines.
NextGroup ==
    \/ BeginEdit
    \/ EditorTopology
    \/ InsertGroupAny
    \/ EndEdit

SpecGroup == InitGroup /\ [][NextGroup]_vars

\* Edit sessions that only change the allowed sets, on either machine.
NextAllow ==
    \/ BeginEdit
    \/ AllowAny
    \/ EndEdit

SpecAllow == InitAllow /\ [][NextAllow]_vars

----------------------------------------------------------------------------
(* Properties of edit sessions                                             *)

MutationOps ==
    {"restrict", "allow", "insert_group_object", "insert_misc_object"}

ErrorTags ==
    {ParameterError(NoSet).tag, AllowSetError.tag, HwlocError.tag,
     ForeignParent.tag, NameContainsNul.tag, ForeignObjectError.tag}

\* C1: a shared reference to the topology is handed out only once a refresh
\* has completed after the most recent mutation: no reference given by
\* editor.topology(), to find_parent or find_children, or by the end of
\* edit(), has ever seen caches a mutation left behind, and none are left
\* while no session is open.
C1_RefreshBeforeSharedReference ==
    /\ ~exposedStale
    /\ (pc = "idle" => ~stale)

\* editor.topology() has just refreshed caches that a mutation of the same
\* session had left behind.
C1_Witness ==
    /\ last.op = "topology"
    /\ last.refreshed
    /\ ~stale

\* C2: a mutation primitive that returns an error leaves the topology (its
\* objects, their links and sets, the allowed sets) exactly as it was
\* before the call.
C2_ErrorLeavesTopologyUnchanged ==
    [][(last'.op \in MutationOps /\ last'.result \in ErrorTags)
       => topo' = topo]_vars

\* insert_group_object has just refused a child of another topology, in a
\* topology an earlier mutation had changed.
C2_Witness ==
    /\ last.op = "insert_group_object"
    /\ last.result = ForeignObjectError.tag
    /\ topo.objs # InitialObjects

\* C3: when the callback panics, edit() runs the refresh exactly once and
\* then raises the very payload it caught; it does not return.
C3_PanicRefreshedThenResumed ==
    (last.op = "edit_end" /\ last.result # "none")
    => /\ endRefreshes = 1
       /\ ~stale
       /\ editOutcome = [kind |-> "panicked", payload |-> last.result]

\* A callback that had changed the topology panicked, and edit() has
\* refreshed and raised the panic again.
C3_Witness ==
    /\ last.op = "edit_end"
    /\ last.result = "panic_b"
    /\ last.refreshed
    /\ editOutcome.kind = "panicked"

\* C4: once a refresh has failed the process is aborted: no session is
\* open or closed any more, and edit() neither returned nor unwound.
C4_RefreshFailureAborts ==
    refreshFailed
    => /\ pc = "aborted"
       /\ editOutcome.kind = "aborted"
       /\ last.result = "Aborted"

\* The refresh at the end of a session that had changed the topology
\* failed.
C4_Witness ==
    /\ refreshFailed
    /\ last.op = "edit"
    /\ stale

----------------------------------------------------------------------------
(* Properties of restrict(), stated for every set and flags it can be      *)
(* given in the topology a session has reached                             *)

\* A session has just been opened: restrict() can be called on topo.
CanRestrict == pc = "callback" /\ last.op = "edit"

Leaves(t) == objects_with_type(t, "PU") \cup objects_with_type(t, "NUMANode")

\* The other set that goes with a set of the restricted kind.
OtherOf(t, kind, target) ==
    IF kind = "CpuSet" THEN from_cpuset(t, target) ELSE from_nodeset(t, target)

\* C5: restrict(set, flags) returns a ParameterError that carries `set`,
\* whatever the flags, when `set` has no element in common with the
\* topology's set of the same kind.
C5_DisjointSetIsParameterError ==
    CanRestrict =>
        \A kind \in Kinds, flags \in SUBSET AllRestrictFlags :
            \A set \in RestrictSets(kind) :
                set \cap from_topology(topo, kind).target = {}
                => restrict(topo, kind, set, flags).result
                       = ParameterError(set)

\* restrict() has just refused a non-empty set that names nothing of the
\* topology, which an earlier restriction had narrowed.
C5_Witness ==
    /\ last.op = "restrict"
    /\ last.result = "ParameterError"
    /\ last.emptied
    /\ ~last.native
    /\ cpuset(topo) # Cpus

\* C6: a restriction that would leave the restricted set of the topology
\* empty is rejected with a parameter error and changes nothing, unless
\* REMOVE_EMPTIED is requested and the other set stays non-empty, in which
\* case it is accepted.
C6_EmptyingRestrictionRejected ==
    CanRestrict =>
        \A kind \in Kinds, flags \in SUBSET AllRestrictFlags :
            \A set \in RestrictSets(kind) :
                LET ao == affected_and_other(topo, kind, set)
                    r == restrict(topo, kind, set, flags)
                IN ao.affected = {}
                   => IF flags_contain(flags, REMOVE_EMPTIED) /\ ao.other # {}
                      THEN r.result = Ok
                      ELSE r.result.tag = "ParameterError" /\ r.topo = topo

\* restrict() has just refused, REMOVE_EMPTIED being requested, a set that
\* would have left nothing of the restricted kind.
C6_Witness ==
    /\ last.op = "restrict"
    /\ last.result = "ParameterError"
    /\ last.emptied
    /\ last.remove_emptied
    /\ ~last.changed

\* C7: after a successful restrict(set, flags), every object that is still
\* there and has sets, the root included, has as its set of the restricted
\* kind the set it had before intersected with `set`.
C7_SurvivorsSetsIntersected ==
    CanRestrict =>
        \A kind \in Kinds, flags \in RestrictFlagInputs :
            \A set \in RestrictSets(kind) :
                LET r == restrict(topo, kind, set, flags)
                IN r.result = Ok
                   => /\ RootId \in Ids(r.topo)
                      /\ \A id \in Ids(r.topo) :
                            r.topo.objs[id].hasSets
                            => from_object(r.topo.objs[id], kind).target
                               = from_object(topo.objs[id], kind).target
                                 \cap set

\* A restriction by node set has just removed a NUMA node and what was
\* local to it.
C7_Witness ==
    /\ last.op = "restrict"
    /\ last.result = "Ok"
    /\ last.changed
    /\ nodeset(topo) = {1}
    /\ cpuset(topo) = 4..7

\* Number of objects of a type.
Count(t, ty) == Cardinality(objects_with_type(t, ty))

\* C8: after a successful restrict, a PU or NUMA node remains unless its
\* set of the restricted kind became empty and (its other set became empty
\* or REMOVE_EMPTIED was requested); any other object with sets remains
\* exactly when a remaining PU or NUMA node is below it; and restricting
\* the whole machine to package 0's cpuset leaves 4 PUs, 2 cores and 1
\* package.
C8_SurvivalRule ==
    CanRestrict =>
        \A kind \in Kinds, flags \in RestrictFlagInputs :
            \A set \in RestrictSets(kind) :
                LET r == restrict(topo, kind, set, flags)
                    kept == Ids(r.topo)
                IN r.result = Ok
                   => /\ kept \subseteq Ids(topo)
                      /\ \A id \in Leaves(topo) :
                            LET target ==
                                    from_object(topo.objs[id], kind).target
                                    \cap set
                            IN id \in kept
                               <=> ~(target = {}
                                     /\ (OtherOf(topo, kind, target) = {}
                                         \/ flags_contain(flags,
                                                          REMOVE_EMPTIED)))
                      /\ \A id \in Ids(topo) \ Leaves(topo) :
                            id \in kept
                            <=> \E l \in Leaves(topo) \cap kept :
                                    id \in ancestors(topo, l)
                      /\ (topo.objs = InitialObjects
                          /\ kind = "CpuSet" /\ set = topo.objs[2].cpuset)
                         => /\ Count(r.topo, "PU") = 4
                            /\ Count(r.topo, "Core") = 2
                            /\ Count(r.topo, "Package") = 1
                            /\ cpuset(r.topo) = InitialObjects[2].cpuset

\* The machine has just been restricted to the cpuset of package 0.
C8_Witness ==
    /\ last.op = "restrict"
    /\ last.result = "Ok"
    /\ last.changed
    /\ cpuset(topo) = InitialObjects[2].cpuset
    /\ Count(topo, "PU") = 4
    /\ Count(topo, "Core") = 2
    /\ Count(topo, "Package") = 1

\* C9 as stated: restricting to S and then to a subset S' of S, with the
\* same flags, leaves the topology that restricting to S' directly leaves.
C9_RestrictTwiceIsRestrictOnce ==
    CanRestrict =>
        \A kind \in Kinds, flags \in RestrictFlagInputs :
            \A S \in RestrictSets(kind) :
                \A Sp \in RestrictSets(kind) \cap SUBSET S :
                    restrict(restrict(topo, kind, S, flags).topo,
                             kind, Sp, flags).topo
                    = restrict(topo, kind, Sp, flags).topo

\* C9, amended: the same, provided S' has an element in common with the
\* topology's set of the restricted kind, so that the restrictions to S'
\* are not refused for naming nothing of the topology.
C9_RestrictTwiceIsRestrictOnceIfAccepted ==
    CanRestrict =>
        \A kind \in Kinds, flags \in RestrictFlagInputs :
            \A S \in RestrictSets(kind) :
                \A Sp \in RestrictSets(kind) \cap SUBSET S :
                    Sp \cap from_topology(topo, kind).target # {}
                    => LET first == restrict(topo, kind, S, flags)
                           second == restrict(first.topo, kind, Sp, flags)
                           direct == restrict(topo, kind, Sp, flags)
                       IN /\ second.topo = direct.topo
                          /\ second.result.tag = direct.result.tag
                          /\ allowed_by_hwloc(
                                 native_restrict_flags(kind, flags))
                             => /\ first.result = Ok
                                /\ second.result = Ok
                                /\ direct.result = Ok

\* A second session restricts further a machine the first one had
\* restricted to package 0.
C9_Witness ==
    /\ last.op = "restrict"
    /\ last.result = "Ok"
    /\ last.changed
    /\ cpuset(topo) = {0, 1}
    /\ Count(topo, "Core") = 1

\* The object count and the sets of the objects that are still there are
\* what they were.
SameCountAndSets(before, after) ==
    /\ Cardinality(Ids(after)) = Cardinality(Ids(before))
    /\ \A id \in Ids(after) \cap Ids(before) :
          /\ after.objs[id].cpuset = before.objs[id].cpuset
          /\ after.objs[id].nodeset = before.objs[id].nodeset

\* C10 as stated: restricting to a set equal to the current allowed cpuset
\* leaves the object count and every surviving object's sets unchanged.
C10_RestrictToAllowedChangesNothing ==
    CanRestrict =>
        \A flags \in SessionFlagInputs :
            SameCountAndSets(
                topo, restrict(topo, "CpuSet", topo.allowed.cpuset, flags).topo)

\* C10, amended: restricting to a set equal to the current allowed cpuset
\* leaves the object count and every surviving object's sets unchanged
\* when the allowed cpuset is the whole cpuset of the topology, and
\* succeeds unless the flags sent to the native call are some it refuses.
C10_RestrictToWholeCpusetChangesNothing ==
    CanRestrict =>
        \A flags \in SessionFlagInputs :
            topo.allowed.cpuset = cpuset(topo)
            => LET r == restrict(topo, "CpuSet", topo.allowed.cpuset, flags)
               IN /\ SameCountAndSets(topo, r.topo)
                  /\ r.result = Ok
                     <=> allowed_by_hwloc(
                             native_restrict_flags("CpuSet", flags))

\* A machine already restricted to package 0, all of it allowed, has just
\* been restricted without losing anything.
C10_Witness ==
    /\ last.op = "restrict"
    /\ last.result = "Ok"
    /\ last.native
    /\ ~last.changed
    /\ topo.allowed.cpuset = cpuset(topo)
    /\ cpuset(topo) = InitialObjects[2].cpuset

----------------------------------------------------------------------------
(* Properties of allow()                                                   *)

\* C11: allow(Custom { cpuset, nodeset }) returns AllowSetError whenever it
\* would leave no allowed CPU or would leave no allowed NUMA node: one of
\* the two effective sets being empty is enough.
C11_EitherEmptySetRejected ==
    pc = "callback" =>
        \A allow_set \in AllowSetsAny :
            allow_set.tag = "Custom"
            => LET e == effective_sets(topo, allow_set.cpuset,
                                       allow_set.nodeset)
               IN (e.cpuset = {} \/ e.nodeset = {})
                  => allow_rejects(topo, allow_set)

\* allow() has just succeeded and left no CPU allowed, while a NUMA node
\* still is.
C11_Witness ==
    /\ last.op = "allow"
    /\ last.result = "Ok"
    /\ topo.allowed.cpuset = {}
    /\ topo.allowed.nodeset # {}

----------------------------------------------------------------------------
(* Properties of the insertions                                            *)

\* C12: insert_group_object returns ForeignObjectError and
\* insert_misc_object returns ForeignParent whenever an object the callback
\* designates is not of the topology being edited; then no child's sets
\* were merged into the group and the topology is what it was.
C12_ForeignObjectRefused ==
    pc = "callback" =>
        /\ \A children \in GroupChildren(topo), merge \in GroupMerges :
              foreign_children(topo, children) # {}
              => LET r == insert_group_object(topo, next_gp_index, children,
                                              merge)
                 IN /\ r.result = ForeignObjectError.tag
                    /\ r.merged = [cpuset |-> {}, nodeset |-> {}]
                    /\ r.topo = topo
        /\ \A parent \in MiscParents(topo), name \in MiscNames :
              ~contains(topo, parent)
              => insert_misc_check(topo, name, parent) = ForeignParent

\* insert_misc_object has just refused a parent of another topology and
\* left alone a topology that an earlier edit had changed.
C12_Witness ==
    /\ last.op = "insert_misc_object"
    /\ last.result = ForeignParent.tag
    /\ ~last.changed
    /\ topo.objs # InitialObjects

\* The union of the cpusets of some objects of the topology.
UnionOfCpusets(t, children) == UNION {t.objs[c].cpuset : c \in children}

----------------------------------------------------------------------------
(* Properties of the objects                                               *)

\* C14: over restrict, insert_group_object and insert_misc_object, a
\* global_persistent_index is never used twice: every index in use is below
\* the next one to hand out, which never decreases, an object that appears
\* gets an index at or above it (one that no object, deleted ones included,
\* had before), and an object that stays keeps its index.
C14_PersistentIndexNeverReused ==
    [][/\ \A id \in Ids(topo) : id < next_gp_index
       /\ next_gp_index' >= next_gp_index
       /\ \A id \in Ids(topo') \ Ids(topo) :
             next_gp_index <= id /\ id < next_gp_index'
       /\ \A id \in Ids(topo') \cap Ids(topo) :
             /\ topo'.objs[id].type = topo.objs[id].type
             /\ topo'.objs[id].os_index = topo.objs[id].os_index]_vars

\* An object was inserted after a restriction had deleted others: it has
\* the index 18, not one of theirs.
C14_Witness ==
    /\ last.op \in {"insert_misc_object", "insert_group_object"}
    /\ last.changed
    /\ \E id \in DOMAIN InitialObjects : id \notin Ids(topo)
    /\ \E id \in Ids(topo) : id \notin DOMAIN InitialObjects

\* C15: in every topology, an object that has a cpuset and a parent has a
\* cpuset included in its parent's.
C15_CpusetIncludedInParents ==
    \A id \in Ids(topo) :
        (topo.objs[id].hasSets /\ topo.objs[id].parent # NoObject)
        => /\ topo.objs[id].parent \in Ids(topo)
           /\ topo.objs[topo.objs[id].parent].hasSets
           /\ topo.objs[id].cpuset
                  \subseteq topo.objs[topo.objs[id].parent].cpuset

\* A topology that was restricted and then given a group: objects were
\* removed, sets narrowed and a parent replaced.
C15_Witness ==
    /\ cpuset(topo) # Cpus
    /\ \E g \in objects_with_type(topo, "Group") :
          /\ topo.objs[g].cpuset # {}
          /\ \E c \in Ids(topo) : topo.objs[c].parent = g

----------------------------------------------------------------------------
(* Queries on the object graph (src/src/object/mod.rs)                     *)
(*                                                                         *)
(* A queried topology is [objs, depth]: the arena and each object's depth. *)

\* Depth: a normal depth counted from the root, or the depth of a type that
\* lies outside the main tree.
Normal(n) == [normal |-> TRUE, n |-> n, tag |-> "Normal"]
Virtual(tag) == [normal |-> FALSE, n |-> -1, tag |-> tag]

VirtualTypes == {"NUMANode", "Bridge", "PCIDevice", "OSDevice", "Misc"}

\* Depth::VIRTUAL_DEPTHS, in the order objects_with_type chains them.
VIRTUAL_DEPTHS ==
    <<Virtual("NUMANode"), Virtual("Bridge"), Virtual("PCIDevice"),
      Virtual("OSDevice"), Virtual("Misc")>>

\* The depths hwloc gives the objects of a machine whose normal types each
\* fill one level: Machine, Package, Core, PU.
LevelOfType(ty) ==
    CASE ty = "Machine" -> 0
      [] ty = "Package" -> 1
      [] ty = "Core" -> 2
      [] ty = "PU" -> 3

DepthByType(objs) ==
    [id \in DOMAIN objs |->
        IF objs[id].type \in VirtualTypes THEN Virtual(objs[id].type)
        ELSE Normal(LevelOfType(objs[id].type))]

\* The 2 x 2 x 2 machine with Misc objects: under a PU, under that Misc
\* object, under the root, and under the latter.
SymmetricObjects ==
    InitialObjects
    @@ (18 :> MiscObject(10)) @@ (19 :> MiscObject(18))
    @@ (20 :> MiscObject(1)) @@ (21 :> MiscObject(20))

\* A hybrid machine: the cores of package 2 lie under it, core 6 lies
\* directly under the machine, so that its branch skips depth 1.
HybridObjects ==
    (1 :> Obj("Machine", NoObject, 0..3, {0}, -1))
    @@ (2 :> Obj("Package", 1, 0..1, {0}, 0))
    @@ (3 :> Obj("Core", 2, {0}, {0}, 0))
    @@ (4 :> Obj("Core", 2, {1}, {0}, 1))
    @@ (5 :> Obj("PU", 3, {0}, {0}, 0))
    @@ (6 :> Obj("Core", 1, {2, 3}, {0}, 2))
    @@ (7 :> Obj("PU", 4, {1}, {0}, 1))
    @@ (8 :> Obj("PU", 6, {2}, {0}, 2))
    @@ (9 :> Obj("PU", 6, {3}, {0}, 3))
    @@ (10 :> Obj("NUMANode", 1, 0..3, {0}, 0))
    @@ (11 :> MiscObject(6))

\* A machine with Group objects at two depths: group 2 above the package
\* and group 4 above two of its three cores.
GroupedObjects ==
    (1 :> Obj("Machine", NoObject, 0..2, {0}, -1))
    @@ (2 :> GroupObject(1, [cpuset |-> 0..2, nodeset |-> {0}]))
    @@ (3 :> Obj("Package", 2, 0..2, {0}, 0))
    @@ (4 :> GroupObject(3, [cpuset |-> 0..1, nodeset |-> {0}]))
    @@ (5 :> Obj("Core", 4, {0}, {0}, 0))
    @@ (6 :> Obj("Core", 4, {1}, {0}, 1))
    @@ (7 :> Obj("Core", 3, {2}, {0}, 2))
    @@ (8 :> Obj("PU", 5, {0}, {0}, 0))
    @@ (9 :> Obj("PU", 6, {1}, {0}, 1))
    @@ (10 :> Obj("PU", 7, {2}, {0}, 2))
    @@ (11 :> Obj("NUMANode", 3, 0..2, {0}, 0))

GroupedDepths ==
    [id \in DOMAIN GroupedObjects |->
        IF GroupedObjects[id].type \in VirtualTypes
        THEN Virtual(GroupedObjects[id].type)
        ELSE Normal(CASE id = 1 -> 0
                      [] id = 2 -> 1
                      [] id = 3 -> 2
                      [] id = 4 -> 3
                      [] id \in 5..7 -> 4
                      [] id \in 8..10 -> 5)]

\* A machine without packages: two cores of one PU each under the machine.
PackagelessObjects ==
    (1 :> Obj("Machine", NoObject, 0..1, {0}, -1))
    @@ (2 :> Obj("Core", 1, {0}, {0}, 0))
    @@ (3 :> Obj("Core", 1, {1}, {0}, 1))
    @@ (4 :> Obj("PU", 2, {0}, {0}, 0))
    @@ (5 :> Obj("PU", 3, {1}, {0}, 1))

PackagelessDepths ==
    [id \in DOMAIN PackagelessObjects |->
        Normal(CASE id = 1 -> 0
                 [] id \in 2..3 -> 1
                 [] id \in 4..5 -> 2)]

QueryTopologies ==
    {[objs |-> SymmetricObjects, depth |-> DepthByType(SymmetricObjects)],
     [objs |-> HybridObjects, depth |-> DepthByType(HybridObjects)],
     [objs |-> GroupedObjects, depth |-> GroupedDepths],
     [objs |-> PackagelessObjects, depth |-> PackagelessDepths]}

\* Objects of another topology: its root and a PU below it.
OtherRoot == -2
OtherObjects ==
    (OtherRoot :> Obj("Machine", NoObject, {0}, {0}, -1))
    @@ (ForeignObject :> Obj("PU", OtherRoot, {0}, {0}, 0))

\* Every object a caller can hold a reference to: those of the topology
\* and those of the other one.
AllObjects(t) ==
    [objs |-> t.objs @@ OtherObjects,
     depth |-> t.depth @@ (OtherRoot :> Normal(0))
                       @@ (ForeignObject :> Normal(1))]

\* TopologyObject::depth and TopologyObject::parent (NoObject for None).
depth(t, id) == t.depth[id]
parent(t, id) == t.objs[id].parent

\* A set of object ids as the sequence in logical order.
RECURSIVE InOrder(_)
InOrder(S) ==
    IF S = {} THEN <<>>
    ELSE LET first == CHOOSE m \in S : \A o \in S : m <= o
         IN <<first>> \o InOrder(S \ {first})

\* Topology::objects_at_depth and Topology::num_objects_at_depth.
objects_at_depth(t, d) == InOrder({id \in Ids(t) : depth(t, id) = d})
num_objects_at_depth(t, d) == Cardinality({id \in Ids(t) : depth(t, id) = d})

\* Topology::depth(): the number of normal depths.
topology_depth(t) ==
    1 + (CHOOSE n \in 0..Cardinality(Ids(t)) :
            /\ \E id \in Ids(t) : depth(t, id) = Normal(n)
            /\ \A id \in Ids(t) : depth(t, id).normal => depth(t, id).n <= n)

----------------------------------------------------------------------------
(* TopologyObject::common_ancestor                                         *)

\* collect_virtual_ancestors: the ancestors with a virtual depth, from the
\* parent up, and the first ancestor with a normal depth (NoObject when
\* there is none).
RECURSIVE collect_virtual_ancestors_from(_, _, _)
collect_virtual_ancestors_from(t, current, ancestors_so_far) ==
    LET p == parent(t, current)
    IN IF p = NoObject
       THEN [ancestors |-> ancestors_so_far, parent |-> NoObject]
       ELSE IF depth(t, p).normal
       THEN [ancestors |-> ancestors_so_far, parent |-> p]
       ELSE collect_virtual_ancestors_from(t, p, Append(ancestors_so_far, p))

collect_virtual_ancestors(t, obj) ==
    collect_virtual_ancestors_from(t, obj, <<>>)

first_virtual_ancestor(virtual_ancestors_1, virtual_ancestors_2) ==
    IF virtual_ancestors_1 # <<>> /\ virtual_ancestors_2 # <<>>
    THEN virtual_ancestors_1[1]
    ELSE NoObject

\* The pairwise search of the two lists: the first ancestor of the first
\* list that is in the second one, NoObject when they share nothing.
shared_virtual_ancestor(virtual_ancestors_1, virtual_ancestors_2) ==
    LET shared == {i \in 1..Len(virtual_ancestors_1) :
                      \E j \in 1..Len(virtual_ancestors_2) :
                          virtual_ancestors_1[i] = virtual_ancestors_2[j]}
    IN IF shared = {} THEN NoObject
       ELSE virtual_ancestors_1[CHOOSE i \in shared : \A k \in shared : i <= k]

\* while normal_depth(obj) > bound { obj = obj.parent()? }: the object
\* reached, NoObject when the walk runs out of parents.
RECURSIVE walk_up_to_depth(_, _, _)
walk_up_to_depth(t, obj, bound) ==
    IF depth(t, obj).n > bound
    THEN IF parent(t, obj) = NoObject THEN NoObject
         ELSE walk_up_to_depth(t, parent(t, obj), bound)
    ELSE obj

RECURSIVE common_ancestor_lockstep(_, _, _, _)
common_ancestor_lockstep(t, parent1, parent2, iterations) ==
    IF parent1 = parent2
    THEN [result |-> parent1, iterations |-> iterations]
    ELSE IF parent(t, parent1) = NoObject \/ parent(t, parent2) = NoObject
    THEN [result |-> NoObject, iterations |-> iterations]
    ELSE common_ancestor_lockstep(t, parent(t, parent1), parent(t, parent2),
                                  iterations + 1)

\* The loop over the ancestors with normal depths; iterations counts the
\* passes through the loop body.
RECURSIVE common_ancestor_loop(_, _, _, _)
common_ancestor_loop(t, parent1, parent2, iterations) ==
    LET depth2 == depth(t, parent2).n
        p1 == walk_up_to_depth(t, parent1, depth2)
    IN IF p1 = NoObject
       THEN [result |-> NoObject, iterations |-> iterations]
       ELSE LET depth1 == depth(t, p1).n
                p2 == walk_up_to_depth(t, parent2, depth1)
            IN IF p2 = NoObject
               THEN [result |-> NoObject, iterations |-> iterations]
               ELSE IF p1 = p2
               THEN [result |-> p1, iterations |-> iterations]
               ELSE IF depth(t, p1) = depth(t, p2)
               THEN IF parent(t, p1) = NoObject \/ parent(t, p2) = NoObject
                    THEN [result |-> NoObject, iterations |-> iterations]
                    ELSE common_ancestor_loop(t, parent(t, p1),
                                              parent(t, p2), iterations + 1)
               ELSE common_ancestor_loop(t, p1, p2, iterations + 1)

\* common_ancestor() with the number of passes through its loop.
common_ancestor_search(t, self, other) ==
    IF self = other
    THEN [result |-> parent(t, self), iterations |-> 0]
    ELSE LET c1 == collect_virtual_ancestors(t, self)
             c2 == collect_virtual_ancestors(t, other)
             shared == shared_virtual_ancestor(c1.ancestors, c2.ancestors)
         IN IF shared # NoObject
            THEN [result |-> shared, iterations |-> 0]
            ELSE IF c1.parent = NoObject \/ c2.parent = NoObject
            THEN [result |-> NoObject, iterations |-> 0]
            ELSE common_ancestor_loop(t, c1.parent, c2.parent, 1)

common_ancestor(t, self, other) == common_ancestor_search(t, self, other).result

\* a.common_ancestor(b) for two objects the caller holds, of this topology
\* or of the other one.
CommonAncestor ==
    /\ query = NoQuery
    /\ \E self \in DOMAIN AllObjects(topo).objs,
          other \in DOMAIN AllObjects(topo).objs :
          LET r == common_ancestor_search(AllObjects(topo), self, other)
          IN query' = [op |-> "common_ancestor", self |-> self,
                       other |-> other, result |-> r.result,
                       iterations |-> r.iterations]
    /\ UNCHANGED <<topo, next_gp_index, allocated, pc, stale, exposedStale,
                   endRefreshes, editOutcome, refreshFailed, last>>

----------------------------------------------------------------------------
(* Topology::objects_closest_to                                            *)

\* find_larger_parent: the first ancestor whose cpuset is not known_cpuset,
\* NoObject when there is none.
RECURSIVE find_larger_parent(_, _, _)
find_larger_parent(t, known_obj, known_cpuset) ==
    LET p == parent(t, known_obj)
    IN IF p = NoObject THEN NoObject
       ELSE IF t.objs[p].cpuset # known_cpuset THEN p
       ELSE find_larger_parent(t, p, known_cpuset)

\* Bitmap::includes.
includes(set, other) == other \subseteq set

\* What objects_closest_to captures in its closure: the current ancestor
\* (NoObject for None), the cousins still to look at and those put aside
\* for the next ancestor.
closest_start(t, obj) ==
    [ancestor |-> find_larger_parent(t, obj, t.objs[obj].cpuset),
     cousins |-> InOrder({cousin_or_obj \in Ids(t) :
                             /\ depth(t, cousin_or_obj) = depth(t, obj)
                             /\ cousin_or_obj # obj}),
     next_cousins |-> <<>>]

\* while let Some(cousin) = cousins.pop(): the cousin found, if any, and
\* the two vectors as the search leaves them.
RECURSIVE pop_covered_cousin(_, _, _, _)
pop_covered_cousin(t, ancestor, cousins, next_cousins) ==
    IF cousins = <<>>
    THEN [found |-> NoObject, cousins |-> cousins,
          next_cousins |-> next_cousins]
    ELSE LET cousin == cousins[Len(cousins)]
             rest == SubSeq(cousins, 1, Len(cousins) - 1)
         IN IF includes(t.objs[ancestor].cpuset, t.objs[cousin].cpuset)
            THEN [found |-> cousin, cousins |-> rest,
                  next_cousins |-> next_cousins]
            ELSE pop_covered_cousin(t, ancestor, rest,
                                    Append(next_cousins, cousin))

\* One call of the closure given to iter::from_fn: the item it returns
\* (NoObject for None) and the captured state it leaves. take() empties
\* ancestor_and_cpuset, which is set again only on the way to a larger
\* ancestor.
RECURSIVE closest_next(_, _)
closest_next(t, it) ==
    IF it.ancestor = NoObject THEN [item |-> NoObject, it |-> it]
    ELSE LET popped == pop_covered_cousin(t, it.ancestor, it.cousins,
                                          it.next_cousins)
         IN IF popped.found # NoObject
            THEN [item |-> popped.found,
                  it |-> [ancestor |-> NoObject,
                          cousins |-> popped.cousins,
                          next_cousins |-> popped.next_cousins]]
            ELSE LET larger == find_larger_parent(
                                   t, it.ancestor, t.objs[it.ancestor].cpuset)
                 IN IF larger = NoObject
                    THEN [item |-> NoObject,
                          it |-> [ancestor |-> NoObject,
                                  cousins |-> popped.cousins,
                                  next_cousins |-> popped.next_cousins]]
                    ELSE closest_next(
                             t, [ancestor |-> larger,
                                 cousins |-> popped.next_cousins,
                                 next_cousins |-> popped.cousins])

\* topology.objects_closest_to(obj) for an object of the topology that has
\* a cpuset.
ClosestStart ==
    /\ query = NoQuery
    /\ \E obj \in {o \in Ids(topo) : topo.objs[o].hasSets} :
          query' = [op |-> "objects_closest_to", obj |-> obj,
                    it |-> closest_start(topo, obj), yielded |-> <<>>,
                    done |-> FALSE]
    /\ UNCHANGED <<topo, next_gp_index, allocated, pc, stale, exposedStale,
                   endRefreshes, editOutcome, refreshFailed, last>>

\* next() on that iterator, until it returns None.
ClosestNext ==
    /\ query.op = "objects_closest_to"
    /\ ~query.done
    /\ LET r == closest_next(topo, query.it)
       IN query' = [query EXCEPT
                      !.it = r.it,
                      !.yielded = IF r.item = NoObject THEN @
                                  ELSE Append(@, r.item),
                      !.done = (r.item = NoObject)]
    /\ UNCHANGED <<topo, next_gp_index, allocated, pc, stale, exposedStale,
                   endRefreshes, editOutcome, refreshFailed, last>>

----------------------------------------------------------------------------
(* Topology::objects_with_type and its iterator                            *)

\* Topology::type_at_depth: the type of the objects of a depth.
type_at_depth(t, d) ==
    IF d.normal
    THEN t.objs[CHOOSE id \in Ids(t) : depth(t, id) = d].type
    ELSE d.tag

\* NormalDepth::iter_range(MIN, depth()) chained with VIRTUAL_DEPTHS.
all_depths(t) ==
    [n \in 1..topology_depth(t) |-> Normal(n - 1)] \o VIRTUAL_DEPTHS

\* Topology::depth_for_type: the depth of a type, or why it has none.
depth_for_type(t, ty) ==
    LET depths == {all_depths(t)[i] : i \in 1..Len(all_depths(t))}
        holding == {d \in depths : type_at_depth(t, d) = ty}
    IN IF holding = {} THEN [ok |-> FALSE, error |-> "Nonexistent"]
       ELSE IF Cardinality(holding) > 1
       THEN [ok |-> FALSE, error |-> "Multiple"]
       ELSE [ok |-> TRUE, depth |-> CHOOSE d \in holding : TRUE]

\* depth_iter: the depths objects_with_type keeps, in order.
RECURSIVE depth_iter_from(_, _, _)
depth_iter_from(t, ty, i) ==
    IF i > Len(all_depths(t)) THEN <<>>
    ELSE LET d == all_depths(t)[i]
             type_depth == depth_for_type(t, ty)
             kept == IF type_depth.ok THEN d = type_depth.depth
                     ELSE type_at_depth(t, d) = ty
         IN (IF kept THEN <<d>> ELSE <<>>) \o depth_iter_from(t, ty, i + 1)

depth_iter(t, ty) == depth_iter_from(t, ty, 1)

\* The sum of num_objects_at_depth over depth_iter.
RECURSIVE sum_of_sizes(_, _)
sum_of_sizes(t, depths) ==
    IF depths = <<>> THEN 0
    ELSE num_objects_at_depth(t, Head(depths)) + sum_of_sizes(t, Tail(depths))

\* depth_iter.flat_map(objects_at_depth): the objects still to come.
RECURSIVE flat_map_objects(_, _)
flat_map_objects(t, depths) ==
    IF depths = <<>> THEN <<>>
    ELSE objects_at_depth(t, Head(depths)) \o flat_map_objects(t, Tail(depths))

\* The ObjectsWithType that objects_with_type() returns.
new_ObjectsWithType(t, ty) ==
    [size |-> sum_of_sizes(t, depth_iter(t, ty)),
     inner |-> flat_map_objects(t, depth_iter(t, ty))]

\* ObjectsWithType::size_hint, whose two ends are equal: the length
\* ExactSizeIterator::len reports.
ObjectsWithType_size_hint(it) == it.size

\* ObjectsWithType::next and next_back hand the call to the inner iterator;
\* size stays as it is.
ObjectsWithType_next(it) ==
    IF it.inner = <<>> THEN [item |-> NoObject, it |-> it]
    ELSE [item |-> Head(it.inner), it |-> [it EXCEPT !.inner = Tail(@)]]

ObjectsWithType_next_back(it) ==
    IF it.inner = <<>> THEN [item |-> NoObject, it |-> it]
    ELSE [item |-> it.inner[Len(it.inner)],
          it |-> [it EXCEPT !.inner = SubSeq(@, 1, Len(@) - 1)]]

ObjectTypes == NormalTypes \cup VirtualTypes

\* topology.objects_with_type(ty)
ObjectsWithTypeStart ==
    /\ query = NoQuery
    /\ \E ty \in ObjectTypes :
          query' = [op |-> "objects_with_type", type |-> ty,
                    it |-> new_ObjectsWithType(topo, ty),
                    yielded |-> <<>>, done |-> FALSE]
    /\ UNCHANGED <<topo, next_gp_index, allocated, pc, stale, exposedStale,
                   endRefreshes, editOutcome, refreshFailed, last>>

\* next() or next_back() on that iterator, until one returns None.
ObjectsWithTypeNext ==
    /\ query.op = "objects_with_type"
    /\ ~query.done
    /\ \E r \in {ObjectsWithType_next(query.it),
                 ObjectsWithType_next_back(query.it)} :
          query' = [query EXCEPT
                      !.it = r.it,
                      !.yielded = IF r.item = NoObject THEN @
                                  ELSE Append(@, r.item),
                      !.done = (r.item = NoObject)]
    /\ UNCHANGED <<topo, next_gp_index, allocated, pc, stale, exposedStale,
                   endRefreshes, editOutcome, refreshFailed, last>>

----------------------------------------------------------------------------
(* TopologyObject::ancestors and its iterator                              *)

\* Ancestors::next: the parent becomes the current object and is returned;
\* without a parent the iterator stays where it is and returns None.
Ancestors_next(t, current) ==
    IF parent(t, current) = NoObject
    THEN [item |-> NoObject, current |-> current]
    ELSE [item |-> parent(t, current), current |-> parent(t, current)]

\* Ancestors::size_hint: the depth of the current object at both ends when
\* it is a normal depth, (0, None) otherwise.
Ancestors_size_hint(t, current) ==
    IF depth(t, current).normal
    THEN [lower |-> depth(t, current).n, upper |-> Some(depth(t, current).n)]
    ELSE [lower |-> 0, upper |-> None]

\* obj.ancestors()
AncestorsStart ==
    /\ query = NoQuery
    /\ \E obj \in Ids(topo) :
          query' = [op |-> "ancestors", obj |-> obj, current |-> obj,
                    yielded |-> <<>>, done |-> FALSE]
    /\ UNCHANGED <<topo, next_gp_index, allocated, pc, stale, exposedStale,
                   endRefreshes, editOutcome, refreshFailed, last>>

\* next() on that iterator, until it returns None.
AncestorsNext ==
    /\ query.op = "ancestors"
    /\ ~query.done
    /\ LET r == Ancestors_next(topo, query.current)
       IN query' = [query EXCEPT
                      !.current = r.current,
                      !.yielded = IF r.item = NoObject THEN @
                                  ELSE Append(@, r.item),
                      !.done = (r.item = NoObject)]
    /\ UNCHANGED <<topo, next_gp_index, allocated, pc, stale, exposedStale,
                   endRefreshes, editOutcome, refreshFailed, last>>

----------------------------------------------------------------------------
(* Topology::depth_or_below_for_type and Topology::depth_or_above_for_type *)

\* The order of the normal object types: a type is less than the types
\* its objects usually contain (Machine < Package < Core < PU).
type_order(ty) ==
    CASE ty = "Machine" -> 0
      [] ty = "Group" -> 1
      [] ty = "Package" -> 2
      [] ty = "Core" -> 3
      [] ty = "PU" -> 4

\* The greatest member of a non-empty set of depths: the first one a
\* reversed depth range visits.
last_depth(S) == CHOOSE n \in S : \A m \in S : m <= n

\* Topology::depth_or_below_for_type: from the depth above the PUs to the
\* root, the first depth whose type is less than object_type; the answer
\* is the depth below it.
depth_or_below_for_type(t, object_type) ==
    LET found == depth_for_type(t, object_type)
        pu_depth == depth_for_type(t, "PU").depth.n
        less == {n \in 0..(pu_depth - 1) :
                    type_order(type_at_depth(t, Normal(n)))
                        < type_order(object_type)}
    IN IF found.ok THEN found
       ELSE IF found.error = "Nonexistent"
       THEN IF less = {} THEN [ok |-> FALSE, error |-> "Nonexistent"]
            ELSE [ok |-> TRUE, depth |-> Normal(last_depth(less) + 1)]
       ELSE found

\* Topology::depth_or_above_for_type: from the depth of the PUs to the
\* root, the first depth whose type is greater than object_type; the
\* answer is the depth above it.
depth_or_above_for_type(t, object_type) ==
    LET found == depth_for_type(t, object_type)
        greater == {n \in 0..(topology_depth(t) - 1) :
                       type_order(type_at_depth(t, Normal(n)))
                           > type_order(object_type)}
    IN IF found.ok THEN found
       ELSE IF found.error = "Nonexistent"
       THEN IF greater = {} THEN [ok |-> FALSE, error |-> "Nonexistent"]
            ELSE [ok |-> TRUE, depth |-> Normal(last_depth(greater) - 1)]
       ELSE found

\* topology.depth_or_below_for_type(ty)
DepthOrBelowForType ==
    /\ query = NoQuery
    /\ \E ty \in NormalTypes :
          query' = [op |-> "depth_or_below_for_type", type |-> ty,
                    result |-> depth_or_below_for_type(topo, ty)]
    /\ UNCHANGED <<topo, next_gp_index, allocated, pc, stale, exposedStale,
                   endRefreshes, editOutcome, refreshFailed, last>>

\* topology.depth_or_above_for_type(ty)
DepthOrAboveForType ==
    /\ query = NoQuery
    /\ \E ty \in NormalTypes :
          query' = [op |-> "depth_or_above_for_type", type |-> ty,
                    result |-> depth_or_above_for_type(topo, ty)]
    /\ UNCHANGED <<topo, next_gp_index, allocated, pc, stale, exposedStale,
                   endRefreshes, editOutcome, refreshFailed, last>>

----------------------------------------------------------------------------
(* TopologyObject::infos and TopologyObject::add_info                      *)

\* The most pairs add_info gives one object.
MaxInfos == 2

InfoNames == {<<"a">>, <<"b">>, <<"a", "NUL">>}
InfoValues == {<<"v">>, <<"v", "NUL">>}

\* hwloc_obj::children: the normal children; the pointer is null when
\* there is none.
normal_children(t, obj) ==
    {c \in Ids(t) : parent(t, c) = obj /\ t.objs[c].type \in NormalTypes}

\* hwloc_obj_add_info: the pair goes after those of the array.
hwloc_obj_add_info(native_infos, name, value) ==
    Append(native_infos, <<name, value>>)

\* TopologyObject::add_info: the strings are converted, then the native
\* call is made.
add_info(native_infos, name, value) ==
    IF contains_nul(name) \/ contains_nul(value)
    THEN [result |-> "NulError", infos |-> native_infos]
    ELSE [result |-> "Ok",
          infos |-> hwloc_obj_add_info(native_infos, name, value)]

NoResult == [kind |-> "none"]
Panic == [kind |-> "panic"]
Slice(list) == [kind |-> "slice", list |-> list]

\* TopologyObject::infos: the outcomes of a call. With a null children
\* pointer the count is asserted to be zero. Otherwise the slice is built
\* from the infos pointer, which is null as long as the object has no
\* pair: a null pointer breaks the contract of slice::from_raw_parts, and
\* the build either yields the empty slice or reports the broken
\* precondition.
infos(t, obj, native_infos) ==
    IF normal_children(t, obj) = {}
    THEN IF Len(native_infos) # 0 THEN {Panic} ELSE {Slice(<<>>)}
    ELSE IF native_infos = <<>> THEN {Slice(<<>>), Panic}
    ELSE {Slice(native_infos)}

\* A caller takes an object of the topology, which has no pair yet.
InfosStart ==
    /\ query = NoQuery
    /\ \E obj \in Ids(topo) :
          query' = [op |-> "infos", obj |-> obj, infos |-> <<>>,
                    before |-> <<>>, pair |-> <<>>, added |-> "none",
                    result |-> NoResult]
    /\ UNCHANGED <<topo, next_gp_index, allocated, pc, stale, exposedStale,
                   endRefreshes, editOutcome, refreshFailed, last>>

\* object.add_info(name, value)
AddInfo ==
    /\ query.op = "infos"
    /\ Len(query.infos) < MaxInfos
    /\ \E name \in InfoNames, value \in InfoValues :
          LET r == add_info(query.infos, name, value)
          IN query' = [query EXCEPT
                         !.before = query.infos,
                         !.pair = <<name, value>>,
                         !.infos = r.infos,
                         !.added = r.result,
                         !.result = NoResult]
    /\ UNCHANGED <<topo, next_gp_index, allocated, pc, stale, exposedStale,
                   endRefreshes, editOutcome, refreshFailed, last>>

\* object.infos()
Infos ==
    /\ query.op = "infos"
    /\ \E r \in infos(topo, query.obj, query.infos) :
          query' = [query EXCEPT !.result = r]
    /\ UNCHANGED <<topo, next_gp_index, allocated, pc, stale, exposedStale,
                   endRefreshes, editOutcome, refreshFailed, last>>

----------------------------------------------------------------------------
(* Queries on a topology that is not being edited                          *)

InitQuery ==
    /\ topo \in QueryTopologies
    /\ next_gp_index = 1 + Cardinality(DOMAIN SymmetricObjects)
    /\ allocated = [group |-> 0, misc |-> 0]
    /\ pc = "idle"
    /\ stale = FALSE
    /\ exposedStale = FALSE
    /\ endRefreshes = 0
    /\ editOutcome = [kind |-> "none", payload |-> "none"]
    /\ refreshFailed = FALSE
    /\ last = NoOp
    /\ query = NoQuery

NextQuery ==
    \/ CommonAncestor
    \/ ClosestStart
    \/ ClosestNext
    \/ ObjectsWithTypeStart
    \/ ObjectsWithTypeNext
    \/ AncestorsStart
    \/ AncestorsNext
    \/ DepthOrBelowForType
    \/ DepthOrAboveForType
    \/ InfosStart
    \/ AddInfo
    \/ Infos

SpecQuery == InitQuery /\ [][NextQuery]_vars

----------------------------------------------------------------------------
(* Properties of the queries                                               *)

\* The objects at the depth of obj, obj left out.
CousinsOf(t, obj) ==
    {o \in Ids(t) : depth(t, o) = depth(t, obj) /\ o # obj}

\* How far a cousin is from obj: the number of ancestors of obj whose
\* cpuset does not cover the cousin's.
DistanceFrom(t, obj, cousin) ==
    Cardinality({a \in ancestors(t, obj) :
                    ~includes(t.objs[a].cpuset, t.objs[cousin].cpuset)})

\* C16: for an object of the topology that has a cpuset, the iterator of
\* objects_closest_to(obj), once it has ended, has yielded every other
\* object of obj's depth exactly once, those covered by a lower ancestor
\* before those covered only by a higher one.
C16_ClosestYieldsEveryCousinByDistance ==
    (query.op = "objects_closest_to" /\ query.done)
    => /\ {query.yielded[i] : i \in 1..Len(query.yielded)}
              = CousinsOf(topo, query.obj)
       /\ Len(query.yielded) = Cardinality(CousinsOf(topo, query.obj))
       /\ \A i \in 1..Len(query.yielded), j \in 1..Len(query.yielded) :
             i < j => DistanceFrom(topo, query.obj, query.yielded[i])
                          <= DistanceFrom(topo, query.obj, query.yielded[j])

\* The iterator has ended after one object although obj has more cousins.
C16_Witness ==
    /\ query.op = "objects_closest_to"
    /\ query.done
    /\ Len(query.yielded) = 1
    /\ Cardinality(CousinsOf(topo, query.obj)) > 1

\* The proper ancestors two objects share.
CommonAncestors(t, a, b) == ancestors(t, a) \cap ancestors(t, b)

\* The root an object hangs from.
RootOf(t, obj) ==
    IF parent(t, obj) = NoObject THEN obj
    ELSE CHOOSE r \in ancestors(t, obj) : parent(t, r) = NoObject

\* C17: common_ancestor(a, b) is the deepest object that is a proper
\* ancestor of both; it is None only when there is none, which is when a
\* or b is a root or when they are of different topologies; the search
\* ends after a bounded number of passes; and common_ancestor(o, o) is
\* o.parent().
C17_CommonAncestorIsDeepestShared ==
    query.op = "common_ancestor"
    => LET all == AllObjects(topo)
           common == CommonAncestors(all, query.self, query.other)
       IN /\ query.result # NoObject
             => /\ query.result \in common
                /\ \A c \in common :
                      c = query.result \/ c \in ancestors(all, query.result)
          /\ (query.result = NoObject) = (common = {})
          /\ (common = {})
                = \/ parent(all, query.self) = NoObject
                  \/ parent(all, query.other) = NoObject
                  \/ RootOf(all, query.self) # RootOf(all, query.other)
          /\ query.self = query.other
             => query.result = parent(all, query.self)
          /\ query.iterations
                <= 1 + Cardinality(ancestors(all, query.self))
                     + Cardinality(ancestors(all, query.other))

\* The search went through its loop more than once and found an ancestor
\* that is the parent of neither object.
C17_Witness ==
    /\ query.op = "common_ancestor"
    /\ query.self # query.other
    /\ query.iterations > 1
    /\ query.result # NoObject
    /\ query.result # parent(AllObjects(topo), query.self)
    /\ query.result # parent(AllObjects(topo), query.other)

\* C18: common_ancestor(a, b) and common_ancestor(b, a) are the same
\* object, or both None, for every pair of objects, those at virtual
\* depths and those of a branch that skips a depth included.
C18_CommonAncestorSymmetric ==
    query.op = "common_ancestor"
    => query.result
           = common_ancestor(AllObjects(topo), query.other, query.self)

\* The pair is a Misc object under the core whose branch skips a depth and
\* a PU of the other branch.
C18_Witness ==
    /\ query.op = "common_ancestor"
    /\ topo.objs = HybridObjects
    /\ {query.self, query.other} \subseteq Ids(topo)
    /\ topo.objs[query.self].type = "Misc"
    /\ topo.objs[query.other].type = "PU"
    /\ topo.objs[topo.objs[query.other].parent].parent # RootId
    /\ query.result = RootId

\* C19: the iterator of objects_with_type(T) is exact-size: after any
\* number of next() and next_back() the length it reports is the number of
\* objects it has still to yield, and before the first of them it is the
\* sum of the object counts of the depths that hold type T.
C19_ObjectsWithTypeExactSize ==
    query.op = "objects_with_type"
    => /\ ObjectsWithType_size_hint(query.it) = Len(query.it.inner)
       /\ query.yielded = <<>>
          => ObjectsWithType_size_hint(query.it)
                 = Cardinality({o \in Ids(topo) :
                                   topo.objs[o].type = query.type})

\* An object was yielded from each end and the reported length is still
\* the initial one.
C19_Witness ==
    /\ query.op = "objects_with_type"
    /\ Len(query.yielded) = 2
    /\ query.yielded[1] < query.yielded[2]
    /\ query.it.inner # <<>>
    /\ ObjectsWithType_size_hint(query.it) = Len(query.it.inner) + 2

\* The chain of parents of an object, from its parent up to the root.
RECURSIVE ParentChain(_, _)
ParentChain(t, obj) ==
    IF parent(t, obj) = NoObject THEN <<>>
    ELSE <<parent(t, obj)>> \o ParentChain(t, parent(t, obj))

\* C20: for an object at a normal depth, ancestors() yields the parent,
\* the grandparent and so on up to the root and then ends, and the length
\* it reports before each step is the number of ancestors it has still to
\* yield.
C20_AncestorsExactSize ==
    (query.op = "ancestors" /\ depth(topo, query.obj).normal)
    => LET chain == ParentChain(topo, query.obj)
           hint == Ancestors_size_hint(topo, query.current)
       IN /\ Len(query.yielded) <= Len(chain)
          /\ query.yielded = SubSeq(chain, 1, Len(query.yielded))
          /\ query.done => query.yielded = chain
          /\ hint.lower = Len(chain) - Len(query.yielded)
          /\ hint.upper = Some(hint.lower)

\* The iterator of a core that lies directly under the machine reports two
\* ancestors to come and has one.
C20_Witness ==
    /\ query.op = "ancestors"
    /\ topo.objs[query.obj].type = "Core"
    /\ query.yielded = <<>>
    /\ Ancestors_size_hint(topo, query.current).lower = 2
    /\ ParentChain(topo, query.obj) = <<RootId>>

----------------------------------------------------------------------------
(* Properties of the depth queries                                         *)

\* The normal depths of a topology whose type is less than ty: the levels
\* whose objects usually contain those of ty.
EnclosingDepths(t, ty) ==
    {n \in 0..(topology_depth(t) - 1) :
        type_order(type_at_depth(t, Normal(n))) < type_order(ty)}

\* C21: when no object of a normal type T is present,
\* depth_or_above_for_type(T) is the depth of the nearest (deepest) present
\* level whose type usually contains T, or Nonexistent when there is no
\* such level; it is never the depth of a level whose type is usually
\* found inside T.
C21_DepthOrAboveIsNearestEnclosing ==
    (/\ query.op = "depth_or_above_for_type"
     /\ depth_for_type(topo, query.type) =
            [ok |-> FALSE, error |-> "Nonexistent"])
    => LET enclosing == EnclosingDepths(topo, query.type)
       IN /\ query.result =
                 IF enclosing = {} THEN [ok |-> FALSE, error |-> "Nonexistent"]
                 ELSE [ok |-> TRUE,
                       depth |-> Normal(last_depth(enclosing))]
          /\ query.result.ok =>
                 type_order(type_at_depth(topo, query.result.depth))
                     < type_order(query.type)

\* depth_or_above_for_type(Package) has answered on the machine without
\* packages.
C21_Witness ==
    /\ query.op = "depth_or_above_for_type"
    /\ query.type = "Package"
    /\ topo.objs = PackagelessObjects
    /\ query.result.ok

\* C22: infos() returns the complete list of the pairs of an object,
\* exactly infos_count of them, whether or not the object has children;
\* after add_info(name, value) succeeded, infos() returns the pairs the
\* object had before followed by the new pair.
C22_InfosIsCompleteList ==
    (query.op = "infos" /\ query.result # NoResult)
    => /\ query.result = Slice(query.infos)
       /\ query.added = "Ok"
              => query.result = Slice(Append(query.before, query.pair))

\* infos() has been called on an object without children after add_info
\* succeeded on it.
C22_Witness ==
    /\ query.op = "infos"
    /\ query.result # NoResult
    /\ query.added = "Ok"
    /\ normal_children(topo, query.obj) = {}

----------------------------------------------------------------------------
(* BitmapIndex (src/src/bitmaps/indices.rs)                                *)
(*                                                                         *)
(* A BitmapIndex wraps a c_uint of which the highest bit stays clear. The   *)
(* c_uint of the model has C_UINT_BITS bits.                               *)

C_UINT_BITS == 4

RECURSIVE Pow2(_)
Pow2(n) == IF n = 0 THEN 1 ELSE 2 * Pow2(n - 1)

\* c_uint arithmetic: bitwise operators, shifts by less than the width,
\* wrapping to the width, next_power_of_two.
RECURSIVE BitAnd(_, _)
BitAnd(x, y) ==
    IF x = 0 \/ y = 0 THEN 0
    ELSE (x % 2) * (y % 2) + 2 * BitAnd(x \div 2, y \div 2)

RECURSIVE BitOr(_, _)
BitOr(x, y) ==
    IF x = 0 THEN y
    ELSE IF y = 0 THEN x
    ELSE (IF x % 2 = 1 \/ y % 2 = 1 THEN 1 ELSE 0)
         + 2 * BitOr(x \div 2, y \div 2)

BitXor(x, y) == BitOr(x, y) - BitAnd(x, y)

c_uint_wrapping(x) == (x + Pow2(C_UINT_BITS) * Pow2(C_UINT_BITS)) % Pow2(C_UINT_BITS)
c_uint_shl(x, n) == (x * Pow2(n)) % Pow2(C_UINT_BITS)
c_uint_shr(x, n) == x \div Pow2(n)
c_uint_next_power_of_two(x) ==
    CHOOSE p \in {Pow2(k) : k \in 0..C_UINT_BITS} :
        /\ p >= x
        /\ \A k \in 0..C_UINT_BITS : Pow2(k) >= x => p <= Pow2(k)

\* BitmapIndex::{ZERO, ONE, MAX, EFFECTIVE_BITS}
ZERO == 0
ONE == 1
MAX == Pow2(C_UINT_BITS - 1) - 1
EFFECTIVE_BITS == C_UINT_BITS - 1

\* What a call yields: a BitmapIndex, an Option<BitmapIndex>, or a panic.
Value(v) == [kind |-> "value", value |-> v]
SomeIndex(v) == [kind |-> "Some", value |-> v]
NoIndex == [kind |-> "None"]

\* Option::expect
expect(option) ==
    IF option.kind = "Some" THEN Value(option.value) ELSE Panic

const_try_from_c_uint(x) == IF x <= MAX THEN SomeIndex(x) ELSE NoIndex

checked_add_within_storage(self, rhs) ==
    IF self + rhs >= Pow2(C_UINT_BITS) THEN NoIndex ELSE SomeIndex(self + rhs)

checked_add(self, rhs) ==
    IF self + rhs >= Pow2(C_UINT_BITS) THEN NoIndex
    ELSE const_try_from_c_uint(self + rhs)

checked_sub(self, rhs) ==
    IF self >= rhs THEN SomeIndex(self - rhs) ELSE NoIndex

checked_mul(self, rhs) ==
    IF self * rhs >= Pow2(C_UINT_BITS) THEN NoIndex
    ELSE const_try_from_c_uint(self * rhs)

wrapping_add(self, rhs) == BitAnd(c_uint_wrapping(self + rhs), MAX)
wrapping_sub(self, rhs) == BitAnd(c_uint_wrapping(self - rhs), MAX)
wrapping_mul(self, rhs) == BitAnd(c_uint_wrapping(self * rhs), MAX)

\* Add, Sub and Mul with a BitmapIndex operand: checked with
\* debug_assertions, wrapping without.
add(debug, self, rhs) ==
    IF debug THEN expect(checked_add(self, rhs))
    ELSE Value(wrapping_add(self, rhs))

sub_wrapping(debug, self, rhs) == Value(wrapping_sub(self, rhs))

sub(debug, self, rhs) ==
    IF debug THEN expect(checked_sub(self, rhs))
    ELSE Value(wrapping_sub(self, rhs))

mul(debug, self, rhs) ==
    IF debug THEN expect(checked_mul(self, rhs))
    ELSE Value(wrapping_mul(self, rhs))

\* Mul<usize>: rhs is a usize, wider than the c_uint.
mul_usize(debug, self, rhs) ==
    IF debug
    THEN IF self # ZERO
         THEN expect(IF rhs <= MAX THEN checked_mul(self, rhs) ELSE NoIndex)
         ELSE Value(ZERO)
    ELSE Value(BitAnd((self * rhs) % Pow2(2 * C_UINT_BITS), MAX))

checked_shl(self, rhs) ==
    IF rhs < EFFECTIVE_BITS
    THEN SomeIndex(BitAnd(c_uint_shl(self, rhs), MAX))
    ELSE NoIndex

checked_shr(self, rhs) ==
    IF rhs < EFFECTIVE_BITS THEN SomeIndex(c_uint_shr(self, rhs)) ELSE NoIndex

rotate_impl_shift_only(self, n, left) ==
    IF left THEN BitAnd(c_uint_shl(self, n % EFFECTIVE_BITS), MAX)
    ELSE c_uint_shr(self, n % EFFECTIVE_BITS)

\* rotate_left (left = TRUE) and rotate_right: the OR of two shifts in
\* opposite directions.
rotate_impl(self, n, left) ==
    LET direct_shift == n % EFFECTIVE_BITS
        opposite_shift == EFFECTIVE_BITS - direct_shift
        left_shift == IF left THEN direct_shift ELSE opposite_shift
        right_shift == IF left THEN opposite_shift ELSE direct_shift
        high_order_bits == BitAnd(c_uint_shl(self, left_shift), MAX)
        low_order_bits == c_uint_shr(self, right_shift)
    IN BitOr(high_order_bits, low_order_bits)

wrapping_shl_rotating(self, rhs) == rotate_impl(self, rhs, TRUE)

wrapping_shl(self, rhs) ==
    BitAnd(c_uint_shl(self, rhs % EFFECTIVE_BITS), MAX)

wrapping_shr(self, rhs) == c_uint_shr(self, rhs % EFFECTIVE_BITS)

shl_unmasked(debug, self, rhs) ==
    IF debug /\ (rhs \div EFFECTIVE_BITS) # 0 THEN Panic
    ELSE Value(c_uint_shl(self, IF debug THEN rhs ELSE rhs % EFFECTIVE_BITS))

\* shl_with_int and shr_with_int: Shl and Shr with an integer operand.
shl(debug, self, rhs) ==
    IF debug /\ (rhs \div EFFECTIVE_BITS) # 0 THEN Panic
    ELSE Value(BitAnd(c_uint_shl(self, IF debug THEN rhs
                                       ELSE rhs % EFFECTIVE_BITS), MAX))

shr(debug, self, rhs) ==
    IF debug /\ (rhs \div EFFECTIVE_BITS) # 0 THEN Panic
    ELSE Value(BitAnd(c_uint_shr(self, IF debug THEN rhs
                                       ELSE rhs % EFFECTIVE_BITS), MAX))

checked_next_power_of_two(self) ==
    LET inner == c_uint_next_power_of_two(self)
    IN IF inner <= MAX THEN SomeIndex(inner) ELSE NoIndex

next_power_of_two(debug, self) ==
    IF debug THEN expect(checked_next_power_of_two(self))
    ELSE Value(c_uint_next_power_of_two(self) % MAX)

\* Not: the bits below the highest one are flipped.
not(self) == BitXor(self, MAX)

\* The operands of the calls: shift and rotation amounts up to and beyond
\* twice EFFECTIVE_BITS; usize factors up to and beyond the c_uint.
Indices == 0..MAX
Amounts == 0..(2 * EFFECTIVE_BITS + 1)
Usizes == 0..(MAX + 2) \cup {Pow2(C_UINT_BITS), Pow2(C_UINT_BITS) + 1}

NoOrigin == [value |-> -1, n |-> -1]

\* A call on the current index: the index it yields, if any, is the
\* current one from then on. origin remembers the index and the amount of
\* a rotate_left until the call that follows it has been made.
Called(name, rhs, result) ==
    /\ query.op = "index"
    /\ query' = [query EXCEPT
                    !.name = name,
                    !.self = query.value,
                    !.rhs = rhs,
                    !.result = result,
                    !.value = IF result.kind \in {"value", "Some"}
                              THEN result.value ELSE @,
                    !.origin = IF name = "rotate_left"
                               THEN [value |-> query.value, n |-> rhs]
                               ELSE IF name = "rotate_right"
                                       /\ query.name = "rotate_left" THEN @
                               ELSE NoOrigin]
    /\ UNCHANGED <<topo, next_gp_index, allocated, pc, stale, exposedStale,
                   endRefreshes, editOutcome, refreshFailed, last>>

\* self.checked_add(rhs), self.checked_sub(rhs), self.checked_mul(rhs)
Checked ==
    \E rhs \in Indices :
        \/ Called("checked_add", rhs, checked_add(query.value, rhs))
        \/ Called("checked_sub", rhs, checked_sub(query.value, rhs))
        \/ Called("checked_mul", rhs, checked_mul(query.value, rhs))

\* self.wrapping_add(rhs), self.wrapping_sub(rhs), self.wrapping_mul(rhs)
Wrapping ==
    \E rhs \in Indices :
        \/ Called("wrapping_add", rhs, Value(wrapping_add(query.value, rhs)))
        \/ Called("wrapping_sub", rhs, Value(wrapping_sub(query.value, rhs)))
        \/ Called("wrapping_mul", rhs, Value(wrapping_mul(query.value, rhs)))

\* self + rhs, self - rhs, self * rhs
Operator ==
    \E rhs \in Indices :
        \/ Called("add", rhs, add(query.debug, query.value, rhs))
        \/ Called("sub", rhs, sub(query.debug, query.value, rhs))
        \/ Called("mul", rhs, mul(query.debug, query.value, rhs))

\* self * rhs with a usize
MulUsize ==
    \E rhs \in Usizes :
        Called("mul_usize", rhs, mul_usize(query.debug, query.value, rhs))

\* self.checked_shl(rhs), self.checked_shr(rhs)
CheckedShift ==
    \E rhs \in Amounts :
        \/ Called("checked_shl", rhs, checked_shl(query.value, rhs))
        \/ Called("checked_shr", rhs, checked_shr(query.value, rhs))

\* self.wrapping_shl(rhs), self.wrapping_shr(rhs)
WrappingShift ==
    \E rhs \in Amounts :
        \/ Called("wrapping_shl", rhs, Value(wrapping_shl(query.value, rhs)))
        \/ Called("wrapping_shr", rhs, Value(wrapping_shr(query.value, rhs)))

\* self << rhs, self >> rhs
Shift ==
    \E rhs \in Amounts :
        \/ Called("shl", rhs, shl(query.debug, query.value, rhs))
        \/ Called("shr", rhs, shr(query.debug, query.value, rhs))

\* self.rotate_left(n)
RotateLeft ==
    \E n \in Amounts :
        Called("rotate_left", n, Value(rotate_impl(query.value, n, TRUE)))

\* self.rotate_right(n)
RotateRight ==
    \E n \in Amounts :
        Called("rotate_right", n, Value(rotate_impl(query.value, n, FALSE)))

\* self.checked_next_power_of_two()
CheckedNextPowerOfTwo ==
    Called("checked_next_power_of_two", 0,
           checked_next_power_of_two(query.value))

\* self.next_power_of_two()
NextPowerOfTwo ==
    Called("next_power_of_two", 0,
           next_power_of_two(query.debug, query.value))

\* !self
Not ==
    Called("not", 0, Value(not(query.value)))

\* An index obtained by conversion from an integer of the range, in a
\* build with or without debug_assertions.
InitIndex ==
    /\ topo = [objs |-> PackagelessObjects, depth |-> PackagelessDepths]
    /\ next_gp_index = 1 + Cardinality(DOMAIN PackagelessObjects)
    /\ allocated = [group |-> 0, misc |-> 0]
    /\ pc = "idle"
    /\ stale = FALSE
    /\ exposedStale = FALSE
    /\ endRefreshes = 0
    /\ editOutcome = [kind |-> "none", payload |-> "none"]
    /\ refreshFailed = FALSE
    /\ last = NoOp
    /\ \E debug \in BOOLEAN, value \in Indices :
          query = [op |-> "index", debug |-> debug, value |-> value,
                   name |-> "try_from", self |-> value, rhs |-> 0,
                   result |-> Value(value), origin |-> NoOrigin]

NextIndex ==
    \/ Checked
    \/ Wrapping
    \/ Operator
    \/ MulUsize
    \/ CheckedShift
    \/ WrappingShift
    \/ Shift
    \/ RotateLeft
    \/ RotateRight
    \/ CheckedNextPowerOfTwo
    \/ NextPowerOfTwo
    \/ Not

SpecIndex == InitIndex /\ [][NextIndex]_vars

----------------------------------------------------------------------------
(* Properties of BitmapIndex                                               *)

\* C23: every BitmapIndex a call yields, with or without debug_assertions
\* and after any sequence of calls, lies in [0, MAX]: the bit above
\* EFFECTIVE_BITS is clear.
C23_IndexStaysInRange ==
    query.op = "index"
    => /\ query.value \in 0..MAX
       /\ query.value < Pow2(EFFECTIVE_BITS)
       /\ query.result.kind \in {"value", "Some"}
              => query.result.value \in 0..MAX

\* A left shift without debug_assertions has pushed a set bit to the bit
\* above EFFECTIVE_BITS.
C23_Witness ==
    /\ query.op = "index"
    /\ query.name = "shl"
    /\ ~query.debug
    /\ c_uint_shl(query.self, query.rhs % EFFECTIVE_BITS) > MAX
    /\ query.result.kind = "value"

\* C24: checked_add(a, b) is Some(a + b) exactly when a + b <= MAX and
\* None otherwise; MAX.checked_add(ONE) is None.
C24_CheckedAddExact ==
    (query.op = "index" /\ query.name = "checked_add")
    => query.result = IF query.self + query.rhs <= MAX
                      THEN SomeIndex(query.self + query.rhs)
                      ELSE NoIndex

\* MAX.checked_add(ONE) has been called.
C24_Witness ==
    /\ query.op = "index"
    /\ query.name = "checked_add"
    /\ query.self = MAX
    /\ query.rhs = ONE
    /\ query.result = NoIndex

\* The exact result of an operator on two integers.
Exact(name, a, b) ==
    CASE name = "add" -> a + b
      [] name = "sub" -> a - b
      [] name \in {"mul", "mul_usize"} -> a * b

\* The value of the wrapping method that matches an operator.
WrappingOf(name, a, b) ==
    CASE name = "add" -> wrapping_add(a, b)
      [] name = "sub" -> wrapping_sub(a, b)
      [] name = "mul" -> wrapping_mul(a, b)
      [] name = "mul_usize" -> (a * b) % Pow2(EFFECTIVE_BITS)

C26_ShiftPastEffectiveBits ==
    (/\ query.op = "index"
     /\ query.name \in {"checked_shl", "checked_shr", "shl", "shr",
                        "wrapping_shl", "wrapping_shr"}
     /\ query.rhs >= EFFECTIVE_BITS)
    => LET n == query.rhs % EFFECTIVE_BITS
           shifted == IF query.name \in {"shl", "wrapping_shl"}
                      THEN (query.self * Pow2(n)) % Pow2(EFFECTIVE_BITS)
                      ELSE query.self \div Pow2(n)
       IN query.result =
              IF query.name \in {"checked_shl", "checked_shr"} THEN NoIndex
              ELSE IF query.name \in {"shl", "shr"} /\ query.debug THEN Panic
              ELSE Value(shifted)

\* wrapping_shl by more than EFFECTIVE_BITS has dropped a set bit.
C26_Witness ==
    /\ query.op = "index"
    /\ query.name = "wrapping_shl"
    /\ query.rhs > EFFECTIVE_BITS
    /\ query.self * Pow2(query.rhs % EFFECTIVE_BITS) > MAX
    /\ query.result.kind = "value"

\* C27: next_power_of_two(a) is the smallest power of two >= a when that
\* power is <= MAX; when it is not, the call panics with debug_assertions
\* and yields ZERO without them, the only case in which it yields ZERO.
C27_NextPowerOfTwo ==
    (query.op = "index" /\ query.name = "next_power_of_two")
    => LET power == c_uint_next_power_of_two(query.self)
       IN query.result =
              IF power <= MAX THEN Value(power)
              ELSE IF query.debug THEN Panic
              ELSE Value(ZERO)

\* next_power_of_two has been called without debug_assertions on an index
\* whose next power of two exceeds MAX.
C27_Witness ==
    /\ query.op = "index"
    /\ query.name = "next_power_of_two"
    /\ ~query.debug
    /\ c_uint_next_power_of_two(query.self) > MAX
    /\ query.result.kind = "value"

\* C28: for every a and every n, n = 0, the multiples of EFFECTIVE_BITS
\* and the amounts beyond it included, a.rotate_left(n).rotate_right(n)
\* is a.
C28_RotateRoundTrip ==
    (/\ query.op = "index"
     /\ query.name = "rotate_right"
     /\ query.origin.n = query.rhs)
    => query.result = Value(query.origin.value)

\* A rotation to the left by more than EFFECTIVE_BITS that changed the
\* index has been followed by the rotation to the right by that amount.
C28_Witness ==
    /\ query.op = "index"
    /\ query.name = "rotate_right"
    /\ query.origin.n = query.rhs
    /\ query.rhs > EFFECTIVE_BITS
    /\ query.self # query.origin.value


----------------------------------------------------------------------------
(* Flags sent to the native restrict call                                  *)

\* C29: when restrict() is called with REMOVE_EMPTIED, the flags handed to
\* the native call carry none of the bits of REMOVE_EMPTIED that name no
\* native flag, and carry REMOVE_CPULESS when restricting by CpuSet,
\* REMOVE_MEMLESS when restricting by NodeSet; and whatever the input
\* flags, the native call only receives a flag word it allows.
C29_NativeFlagsAllowed ==
    CanRestrict =>
        \A kind \in Kinds, flags \in SUBSET AllRestrictFlags :
            \A set \in RestrictSets(kind) :
                LET r == restrict(topo, kind, set, flags)
                IN r.native
                   => /\ allowed_by_hwloc(r.native_flags)
                      /\ flags_contain(flags, REMOVE_EMPTIED)
                         => /\ "OTHER_BITS" \notin r.native_flags
                            /\ kind = "CpuSet"
                               => "REMOVE_CPULESS" \in r.native_flags
                            /\ kind = "NodeSet"
                               => "REMOVE_MEMLESS" \in r.native_flags

\* restrict() has just made the native call for a restriction that asked
\* for REMOVE_EMPTIED and would have left CPUs or nodes.
C29_Witness ==
    /\ last.op = "restrict"
    /\ last.native
    /\ last.remove_emptied
    /\ ~last.emptied


----------------------------------------------------------------------------
(* Native insertions of an allocated group                                 *)

====
